---------------------------- MODULE Spec2Model ----------------------------
(***************************************************************************)
(* A model of the schema-less protobuf decoder, the string sanitizer and   *)
(* the localization-key analyzer of shortcuts-actions-types-complete:      *)
(*   src/utils/protobuf_parser.py      decode_varint, decode_protobuf_blob,*)
(*                                     sanitize_extracted_string           *)
(*   src/utils/localization_parser.py  is_localization_key, ...,           *)
(*                                     generate_readable_name              *)
(*                                                                         *)
(* Bytes are the integers 0..255.  A Python int (unbounded) is modelled as *)
(* the set of the positions of its 1 bits, so that | is set union, << is a *)
(* translation and no value is cut to the width of a machine integer.      *)
(* Text is a sequence of one-character strings.                            *)
(***************************************************************************)
EXTENDS Integers, Sequences, FiniteSets, TLC

VARIABLES
    blob,      \* decode_protobuf_blob: the input bytes
    pc,        \* position of the running function
    i,         \* decode_protobuf_blob: the scan offset
    fields,    \* decode_protobuf_blob: result['fields'], key -> value
    log,       \* history: every field assignment of the scan, in order
    stop,      \* history: why the scan loop was left
    resultKeys,   \* decode_protobuf_blob: the keys of the returned dict
    rawStrings,   \* extract_strings_from_blob: raw_strings
    strings,      \* extract_strings_from_blob: strings; result['strings']
    minLength,    \* extract_strings_from_blob: the argument min_length
    vin,       \* varint round trip: the value to encode
    vbytes,    \* varint round trip: the bytes handed to decode_varint
    vout,      \* varint round trip: what decode_varint returned
    rawText,      \* sanitize_extracted_string: the argument s
    clean,        \* sanitize_extracted_string(rawText)
    again,        \* sanitize_extracted_string(clean)
    locKey,       \* localization parser: the argument text / key
    locFallback,  \* generate_readable_name: the argument fallback
    locScore,     \* get_localization_key_confidence(locKey)
    locParsed,    \* parse_localization_key(locKey)
    locReadable,  \* generate_readable_name(locKey, locFallback)
    locCleaned,   \* clean_embedded_keys(locKey)
    locTitle      \* camel_case_to_title(locKey) or constant_to_title(locKey)

resVars    == <<resultKeys, rawStrings, strings, minLength>>
wireVars   == <<blob, i, fields, log, stop, resVars>>
varintVars == <<vin, vbytes, vout>>
sanVars    == <<rawText, clean, again>>
locVars    == <<locKey, locFallback, locScore, locParsed, locReadable,
                locCleaned, locTitle>>

vars == <<pc, wireVars, varintVars, sanVars, locVars>>

----------------------------------------------------------------------------
(* Bounds of the explored inputs.                                          *)

\* A blob is a concatenation of at most MaxChunks chunks of BlobChunks.
MaxChunks == 3

\* A text handed to the sanitizer is a concatenation of at most MaxPieces
\* pieces of SanPieces.
MaxPieces == 4

\* A value of the varint round trip has at most MaxSetBits 1 bits.
MaxSetBits == 2

\* At most MaxTailLen digits or plus signs follow the quote behind a UUID.
MaxTailLen == 2

\* The middle of a text handed to the localization parser is a concatenation
\* of at most MaxKeyWords words of KeyWords.
MaxKeyWords == 2

----------------------------------------------------------------------------
(* Bytes and unbounded integers.                                           *)

Pow2(n) == IF n = 0 THEN 1 ELSE 2 ^ n

\* The positions of the 1 bits of the byte b.
Bits(b) == {j \in 0..7 : (b \div Pow2(j)) % 2 = 1}

\* byte & 0x7F, as a bit set.
DataBitsNoMask(byte) == Bits(byte)

DataBits(byte) == Bits(byte % 128)

\* byte & 0x80 is non-zero.
HasContinuation(byte) == byte >= 128

\* x << shift on bit sets.
ShiftLeft(x, shift) == {j + shift : j \in x}

\* x >> shift on bit sets.
ShiftRight(x, shift) == {j - shift : j \in {k \in x : k >= shift}}

\* The integer of a bit set that fits TLC's integers.
RECURSIVE BitSum(_)
BitSum(x) ==
    IF x = {} THEN 0
    ELSE LET j == CHOOSE k \in x : TRUE IN Pow2(j) + BitSum(x \ {j})

\* Values of 2^24 and more only ever take part in comparisons with offsets
\* into a blob of a few bytes; they are all represented by Huge there.
NatBits == 24

Huge == Pow2(NatBits)

ToNat(x) == IF \A j \in x : j < NatBits THEN BitSum(x) ELSE Huge

\* blob[i:] (an offset past the end gives the empty slice).
SliceFrom(data, k) ==
    IF k >= Len(data) THEN << >> ELSE SubSeq(data, k + 1, Len(data))

\* blob[i:j]
Slice(data, k, j) ==
    IF k >= Len(data) \/ j <= k THEN << >>
    ELSE SubSeq(data, k + 1, IF j > Len(data) THEN Len(data) ELSE j)

----------------------------------------------------------------------------
(* Text: sequences of one-character strings, and Python's str methods.     *)

Digit == {"0", "1", "2", "3", "4", "5", "6", "7", "8", "9"}

Upper ==
    {"A", "B", "C", "D", "E", "F", "G", "H", "I", "J", "K", "L", "M",
     "N", "O", "P", "Q", "R", "S", "T", "U", "V", "W", "X", "Y", "Z"}

Lower ==
    {"a", "b", "c", "d", "e", "f", "g", "h", "i", "j", "k", "l", "m",
     "n", "o", "p", "q", "r", "s", "t", "u", "v", "w", "x", "y", "z"}

\* \s and str.strip(): of the whitespace characters only the space occurs
\* in the texts explored.
Whitespace == {" "}

Quote == {"\"", "'"}

\* The grave accent, which a string of this notation cannot hold.
Backtick == "grave"

\* [A-Za-z0-9]
Alnum == Digit \cup Upper \cup Lower

\* \w
WordChar == Alnum \cup {"_"}

\* string.punctuation
Punctuation ==
    {"!", "\"", "#", "$", "%", "&", "'", "(", ")", "*", "+", ",", "-", ".",
     "/", ":", ";", "<", "=", ">", "?", "@", "[", "\\", "]", "^", "_",
     Backtick, "{", "|", "}", "~"}

DropLast(s) == SubSeq(s, 1, Len(s) - 1)

RECURSIVE LStrip(_)
LStrip(s) ==
    IF s # << >> /\ s[1] \in Whitespace THEN LStrip(Tail(s)) ELSE s

RECURSIVE RStrip(_)
RStrip(s) ==
    IF s # << >> /\ s[Len(s)] \in Whitespace THEN RStrip(DropLast(s)) ELSE s

\* s.strip()
Strip(s) == RStrip(LStrip(s))

\* s.startswith(p)
StartsWith(s, p) == Len(s) >= Len(p) /\ SubSeq(s, 1, Len(p)) = p

\* s.endswith(p)
EndsWith(s, p) ==
    Len(s) >= Len(p) /\ SubSeq(s, Len(s) - Len(p) + 1, Len(s)) = p

\* d occurs in s at position k.
OccursAt(s, d, k) ==
    k >= 1 /\ k + Len(d) - 1 <= Len(s) /\ SubSeq(s, k, k + Len(d) - 1) = d

\* The positions at which d occurs in s.
Occurrences(s, d) == {k \in 1..Len(s) : OccursAt(s, d, k)}

\* d in s
Contains(s, d) == Occurrences(s, d) # {}

Min(S) == CHOOSE x \in S : \A y \in S : x <= y

\* s.count(d): occurrences that do not overlap, from the left.
RECURSIVE CountFrom(_, _, _)
CountFrom(s, d, k) ==
    LET later == {q \in Occurrences(s, d) : q >= k}
    IN  IF later = {} THEN 0 ELSE 1 + CountFrom(s, d, Min(later) + Len(d))

Count(s, d) == CountFrom(s, d, 1)

\* s.split(d)[0]
BeforeFirst(s, d) ==
    IF Contains(s, d) THEN SubSeq(s, 1, Min(Occurrences(s, d)) - 1) ELSE s

\* The length of the longest suffix of s made of characters of set.
RECURSIVE TrailingRun(_, _)
TrailingRun(s, set) ==
    IF s # << >> /\ s[Len(s)] \in set
    THEN 1 + TrailingRun(DropLast(s), set) ELSE 0

\* s without its last n characters.
Chop(s, n) == SubSeq(s, 1, Len(s) - n)

\* Optional[str]
None == [ok |-> FALSE, text |-> << >>]
Some(s) == [ok |-> TRUE, text |-> s]

----------------------------------------------------------------------------
(* sanitize_extracted_string (protobuf_parser.py 8-134).                   *)

\* Line 23: artifacts
Artifacts ==
    {"(", ")", "[", "]", "{", "}", "<", ">", "$", "*", "&", "|", "^", "~",
     Backtick, "-", "#", "%", "@"}

\* Line 35 asking for more hyphens than a UUID has.
IsUuidLikeFiveDashes(s) == Count(s, <<"-">>) >= 5 /\ Len(s) >= 36

\* Line 35: is_uuid_like
IsUuidLike(s) == Count(s, <<"-">>) >= 3 /\ Len(s) >= 36

\* Lines 32-38: a single leading digit followed by a non-digit is removed.
StripLeadingDigit(s) ==
    IF /\ Len(s) > 3
       /\ ~IsUuidLike(s)
       /\ s[1] \in Digit /\ s[2] \notin Digit
    THEN Strip(Tail(s)) ELSE s

\* Lines 41-42 and 47-48: while s and s[0] in set: s = s[1:].strip()
RECURSIVE StripLeading(_, _)
StripLeading(s, set) ==
    IF s # << >> /\ s[1] \in set THEN StripLeading(Strip(Tail(s)), set) ELSE s

BundlePrefixes ==
    { <<"c", "o", "m", ".">>, <<"i", "s", ".">>, <<"n", "e", "t", ".">>,
      <<"o", "r", "g", ".">> }

\* rest.startswith('com.') or ... ; also re.match(r'^(com|is|net|org)\.', s)
HasBundlePrefix(s) == \E p \in BundlePrefixes : StartsWith(s, p)

\* Lines 54-58: a leading uppercase letter in front of a bundle identifier.
StripLeadingUpper(s) ==
    IF /\ Len(s) > 4 /\ s[1] \in Upper /\ s[2] \in Lower
       /\ HasBundlePrefix(Tail(s))
    THEN Strip(Tail(s)) ELSE s

\* Lines 61-62: trailing artifacts and quotes.
RECURSIVE StripTrailing(_)
StripTrailing(s) ==
    IF s # << >> /\ (s[Len(s)] \in Artifacts \/ s[Len(s)] \in Quote)
    THEN StripTrailing(Strip(DropLast(s))) ELSE s

\* re.sub(r'["\']<set>+$', '', s).strip(): the only match is the longest
\* trailing run of set, when a quote stands in front of it.
StripQuoteRun(s, set) ==
    LET n == TrailingRun(s, set)
    IN  IF n >= 1 /\ Len(s) > n /\ s[Len(s) - n] \in Quote
        THEN Strip(Chop(s, n + 1)) ELSE s

\* Line 74: re.sub(r'\d+[A-Z]$', '', s).strip()
StripDigitsUpper(s) ==
    LET n == IF s = << >> THEN 0 ELSE TrailingRun(DropLast(s), Digit)
    IN  IF s # << >> /\ s[Len(s)] \in Upper /\ n >= 1
        THEN Strip(Chop(s, n + 1)) ELSE s

\* Lines 77-78 with a run of a single digit removed as well.
StripDigitRunAny(s) ==
    LET n == TrailingRun(s, Digit)
    IN  IF n >= 1 THEN Strip(Chop(s, n)) ELSE s

\* Lines 77-78: a trailing run of two or more digits.
StripDigitRun(s) ==
    LET n == TrailingRun(s, Digit)
    IN  IF n >= 2 THEN Strip(Chop(s, n)) ELSE s

\* Lines 72-78: only for bundle identifiers.
StripBundleSuffix(s) ==
    IF HasBundlePrefix(s) THEN StripDigitRun(StripDigitsUpper(s)) ELSE s

\* Lines 27-68: the leading and trailing artifact rules, in order.
StrippedArtifacts(s) ==
    StripQuoteRun(
      StripQuoteRun(
        StripTrailing(
          StripLeadingUpper(
            StripLeading(
              StripLeading(StripLeadingDigit(Strip(s)), Artifacts),
              Punctuation))),
        Digit),
      {"+"})

\* Lines 27-78: the stripping rules, in order.
Stripped(s) == StripBundleSuffix(StrippedArtifacts(s))

Bplist == <<"b", "p", "l", "i", "s", "t">>

\* Lines 81-92: suspicious_patterns, each tried with re.match (anchored at
\* the start of s).
Suspicious(s) ==
    \/ Len(s) >= 2 /\ s[Len(s)] \in Quote
         /\ \A k \in 1..(Len(s) - 1) : s[k] \in Digit
    \/ s # << >> /\ s[1] \in Quote
    \/ Len(s) >= 2 /\ s[1] \in Quote /\ s[Len(s)] \in Quote
         /\ \A k \in 2..(Len(s) - 1) : s[k] \notin Quote
    \/ s # << >> /\ \A k \in 1..Len(s) : s[k] \notin WordChar
    \/ Len(s) = 3 /\ s[2] = "*"
    \/ StartsWith(s, Bplist) /\ Len(s) > Len(Bplist)
         /\ \A k \in (Len(Bplist) + 1)..Len(s) : s[k] \in Digit

\* Line 104: the delimiters, in the order they are tried.
Delimiters ==
    << <<"*">>, <<"!">>, <<"#">>, <<"^">>, <<"\\", "\\">>, <<"$">>, <<"%">> >>

\* The identifier alternatives ([A-Z][a-z]+[A-Z] | [a-z]+\.[A-Z] | \d |
\* [a-z]+ | [A-Z]) match some text ending at position k exactly when s[k]
\* is a letter or a digit.
IdentifierEndsAt(s, k) == k >= 1 /\ s[k] \in Alnum

\* Line 117: identifier, delimiter, [\s]*\S
JoinsIdentifiers(s, d) ==
    \E q \in Occurrences(s, d) :
        /\ IdentifierEndsAt(s, q - 1)
        /\ \E k \in (q + Len(d))..Len(s) : s[k] \notin Whitespace

\* Line 119: identifier, delimiter, \s*$
EndsWithDelimiter(s, d) ==
    \E q \in Occurrences(s, d) :
        /\ IdentifierEndsAt(s, q - 1)
        /\ \A k \in (q + Len(d))..Len(s) : s[k] \in Whitespace

\* Line 126: [A-Za-z0-9] delimiter [A-Za-z0-9]
TightDelimiter(s, d) ==
    \E q \in Occurrences(s, d) :
        /\ q >= 2 /\ s[q - 1] \in Alnum
        /\ q + Len(d) <= Len(s) /\ s[q + Len(d)] \in Alnum

\* Lines 104-128: for delimiter in [...], from the n-th on.
RECURSIVE SplitFrom(_, _)
SplitFrom(s, n) ==
    IF n > Len(Delimiters) THEN s
    ELSE LET d == Delimiters[n]
         IN  IF ~Contains(s, d) THEN SplitFrom(s, n + 1)
             ELSE IF JoinsIdentifiers(s, d)
                  THEN IF ~EndsWithDelimiter(s, d)
                       THEN Strip(BeforeFirst(s, d))
                       ELSE SplitFrom(s, n + 1)
             ELSE IF Count(s, d) >= 2 /\ TightDelimiter(s, d)
                  THEN Strip(BeforeFirst(s, d))
             ELSE SplitFrom(s, n + 1)

SplitConcatenated(s) == SplitFrom(s, 1)

\* The over-stripping check, were it made on what splitting leaves.
OverStrippedBySplit(s, original) ==
    2 * Len(SplitConcatenated(s)) < Len(original) /\ Len(original) > 10

\* Line 96: len(s) < len(original) * 0.5 and len(original) > 10
OverStripped(s, original) == 2 * Len(s) < Len(original) /\ Len(original) > 10

\* Line 131: if len(s) < 3: return None
MinLength == 3

LengthFloorOffByOne(s) == IF Len(s) < MinLength - 1 THEN None ELSE Some(s)

\* Lines 130-134.
LengthFloor(s) == IF Len(s) < MinLength THEN None ELSE Some(s)

sanitize_extracted_string(s) ==
    IF s = << >> THEN None
    ELSE LET t == Stripped(s)
         IN  IF Suspicious(t) THEN None
             ELSE IF OverStripped(t, s) THEN None
             ELSE LengthFloor(SplitConcatenated(t))

----------------------------------------------------------------------------
(***************************************************************************)
(* Python values and floats, as the localization parser uses them.         *)
(***************************************************************************)
\* A str, None, and a non-zero int (an argument that is neither a str nor
\* falsy).
PyStr(s) == [type |-> "str", text |-> s]
PyNone   == [type |-> "NoneType", text |-> << >>]
PyInt    == [type |-> "int", text |-> << >>]

\* isinstance(v, str)
IsStr(v) == v.type = "str"

\* bool(v)
Truthy(v) == IF IsStr(v) THEN v.text # << >> ELSE v.type = "int"

\* A float of the scoring arithmetic: the double nearest to h / 100, moved
\* by e units of 2^-56.  A literal such as 0.6 is Dec(60).
Dec(h) == [h |-> h, e |-> 0]

\* x + a for the literal a / 100 in IEEE-754 double arithmetic.  Listed are
\* the sums <<x.h, x.e, a, e'>> of get_localization_key_confidence whose
\* rounded result is not the double that x.e units away from the double
\* nearest to the decimal sum: 0.4 + 0.2 is 0.6000000000000001 (8 units
\* above 0.6) and 0.6 + 0.3 is 0.8999999999999999 (8 units below 0.9).
Rounding ==
    { <<-10, -2, -30, 0>>, <<-5, -3, -30, -4>>, <<5, -5, -30, -4>>,
      <<10, -2, -30, 0>>, <<15, 0, 30, -4>>, <<20, -4, -30, -2>>,
      <<20, 0, -30, 2>>, <<20, 4, -30, 6>>, <<25, -8, -30, -7>>,
      <<30, 0, -40, -2>>, <<35, 0, -40, -3>>, <<35, 0, -30, -1>>,
      <<35, 0, 30, -8>>, <<35, 8, -30, 7>>, <<40, 0, -30, 2>>,
      <<40, 0, 20, 8>>, <<45, -4, -40, -5>>, <<45, -4, -30, -2>>,
      <<45, 4, -30, 6>>, <<50, 0, -40, -2>>, <<55, 0, -40, 2>>,
      <<55, 0, -30, 4>>, <<55, 0, 30, 8>>, <<60, 0, -40, -4>>,
      <<60, 0, 30, -8>>, <<60, 8, -40, 4>>, <<65, -8, -30, -4>>,
      <<65, 0, -30, 4>>, <<70, 0, -40, -4>>, <<70, 0, -30, -4>>,
      <<70, 8, -30, 4>>, <<75, 8, 30, 0>>, <<80, -8, -30, -4>>,
      <<80, 0, 15, 8>>, <<85, 8, -40, 4>>, <<85, 8, -30, 0>>,
      <<90, 0, -30, 8>>, <<95, 8, -40, 0>>, <<95, 8, 30, 0>>,
      <<110, 0, -40, 8>>, <<115, 0, -40, -8>>, <<115, 0, -30, -8>>,
      <<120, 0, -40, -8>>, <<120, 0, -30, -8>>, <<120, 0, 15, -16>>,
      <<135, -16, -40, -8>>, <<135, -16, 30, 0>>, <<145, 0, -40, -16>>,
      <<165, 0, -30, -16>>
    }

FloatAdd(x, a) ==
    LET hit == {r \in Rounding : r[1] = x.h /\ r[2] = x.e /\ r[3] = a}
    IN  [h |-> x.h + a,
         e |-> IF hit = {} THEN x.e ELSE (CHOOSE r \in hit : TRUE)[4]]

\* x > y: two floats whose nearest hundredths differ are ordered by them.
FloatGT(x, y) == x.h > y.h \/ (x.h = y.h /\ x.e > y.e)

\* max(x, y) and min(x, y)
FloatMax(x, y) == IF FloatGT(y, x) THEN y ELSE x
FloatMin(x, y) == IF FloatGT(x, y) THEN y ELSE x

(***************************************************************************)
(* More of Python's str methods.                                           *)
(***************************************************************************)
UpperLetters ==
    <<"A", "B", "C", "D", "E", "F", "G", "H", "I", "J", "K", "L", "M",
      "N", "O", "P", "Q", "R", "S", "T", "U", "V", "W", "X", "Y", "Z">>

LowerLetters ==
    <<"a", "b", "c", "d", "e", "f", "g", "h", "i", "j", "k", "l", "m",
      "n", "o", "p", "q", "r", "s", "t", "u", "v", "w", "x", "y", "z">>

LetterIndex(c, letters) == CHOOSE k \in 1..26 : letters[k] = c

ToLower(c) ==
    IF c \in Upper THEN LowerLetters[LetterIndex(c, UpperLetters)] ELSE c

ToUpper(c) ==
    IF c \in Lower THEN UpperLetters[LetterIndex(c, LowerLetters)] ELSE c

\* s.lower()
RECURSIVE LowerText(_)
LowerText(s) ==
    IF s = << >> THEN << >> ELSE <<ToLower(Head(s))>> \o LowerText(Tail(s))

\* s.upper()
RECURSIVE UpperText(_)
UpperText(s) ==
    IF s = << >> THEN << >> ELSE <<ToUpper(Head(s))>> \o UpperText(Tail(s))

\* s.capitalize()
Capitalize(s) ==
    IF s = << >> THEN << >> ELSE <<ToUpper(Head(s))>> \o LowerText(Tail(s))

\* s.isupper(): a cased character, and no lowercase one.
IsUpper(s) ==
    /\ \E k \in 1..Len(s) : s[k] \in Upper
    /\ \A k \in 1..Len(s) : s[k] \notin Lower

\* s.islower()
IsLower(s) ==
    /\ \E k \in 1..Len(s) : s[k] \in Lower
    /\ \A k \in 1..Len(s) : s[k] \notin Upper

\* s.isdigit()
IsDigit(s) == s # << >> /\ \A k \in 1..Len(s) : s[k] \in Digit

\* The character at position k, or no character.
At(s, k) == IF k \in 1..Len(s) THEN s[k] ELSE ""

\* s.split(c) for a single character c: the pieces, empty ones included.
RECURSIVE SplitOn(_, _)
SplitOn(s, c) ==
    IF c \notin {s[k] : k \in 1..Len(s)} THEN <<s>>
    ELSE LET k == Min({j \in 1..Len(s) : s[j] = c})
         IN  <<SubSeq(s, 1, k - 1)>> \o SplitOn(SubSeq(s, k + 1, Len(s)), c)

\* s.split(): the runs of characters that are not whitespace.
SplitWords(s) ==
    LET pieces == SplitOn(s, " ")
    IN  SelectSeq(pieces, LAMBDA p : p # << >>)

\* sep.join(words)
RECURSIVE Join(_, _)
Join(words, sep) ==
    IF words = << >> THEN << >>
    ELSE IF Len(words) = 1 THEN words[1]
    ELSE words[1] \o sep \o Join(Tail(words), sep)

\* The length of the longest run of characters of set that starts at k.
RECURSIVE LeadingRun(_, _, _)
LeadingRun(s, k, set) ==
    IF k > Len(s) \/ s[k] \notin set THEN 0
    ELSE 1 + LeadingRun(s, k + 1, set)

\* [f(w) for w in words]
RECURSIVE MapCapitalize(_)
MapCapitalize(words) ==
    IF words = << >> THEN << >>
    ELSE <<Capitalize(Head(words))>> \o MapCapitalize(Tail(words))

(***************************************************************************)
(* localization_parser.py: the key classifier and its confidence score.    *)
(***************************************************************************)
\* Lines 13-20.
KNOWN_ACRONYMS ==
    { <<"U", "R", "L">>, <<"U", "R", "I">>, <<"H", "T", "M", "L">>, <<"X",
        "M", "L">>, <<"J", "S", "O", "N">>, <<"A", "P", "I">>, <<"U", "I">>,
        <<"I", "D">>, <<"P", "D", "F">>, <<"C", "S", "S">>,
      <<"H", "T", "T", "P">>, <<"H", "T", "T", "P", "S">>, <<"F", "T", "P">>,
          <<"S", "S", "H">>, <<"D", "N", "S">>, <<"I", "P">>, <<"T", "C",
          "P">>, <<"U", "D", "P">>, <<"S", "Q", "L">>, <<"S", "M", "S">>,
      <<"M", "M", "S">>, <<"G", "P", "S">>, <<"U", "S", "B">>, <<"C", "P",
          "U">>, <<"G", "P", "U">>, <<"R", "A", "M">>, <<"R", "O", "M">>,
          <<"O", "S">>, <<"i", "O", "S">>, <<"m", "a", "c", "O", "S">>,
      <<"U", "T", "C">>, <<"G", "M", "T">>, <<"R", "G", "B">>, <<"R", "G",
          "B", "A">>, <<"A", "V", "I">>, <<"M", "P", "3">>, <<"M", "P",
          "4">>, <<"P", "N", "G">>, <<"J", "P", "G">>, <<"J", "P", "E", "G">>,
      <<"G", "I", "F">>, <<"S", "V", "G">>, <<"C", "S", "V">>, <<"T", "S",
          "V">>, <<"Z", "I", "P">>, <<"T", "A", "R">>, <<"G", "Z">>, <<"W",
          "W", "W">>, <<"V", "P", "N">>, <<"L", "A", "N">>,
      <<"W", "A", "N">>, <<"W", "i", "F", "i">>, <<"N", "F", "C">>, <<"R",
          "F", "I", "D">>, <<"O", "C", "R">>, <<"A", "I">>, <<"M", "L">>,
          <<"A", "R">>, <<"V", "R">>, <<"X", "R">> }

\* \d+\.\d+\.\d+ starting at position k, each \d+ taking the whole run of
\* digits (what follows a \d+ in every pattern is not a digit): the position
\* of the last digit, or 0 when there is no such triplet at k.
VersionEndAt(s, k) ==
    LET n1 == LeadingRun(s, k, Digit)
        k2 == k + n1 + 1
        n2 == LeadingRun(s, k2, Digit)
        k3 == k2 + n2 + 1
        n3 == LeadingRun(s, k3, Digit)
    IN  IF /\ n1 >= 1 /\ At(s, k + n1) = "."
           /\ n2 >= 1 /\ At(s, k2 + n2) = "."
           /\ n3 >= 1
        THEN k3 + n3 - 1 ELSE 0

\* The positions of an underscore that starts a match of _\d+\.\d+\.\d+_
VersionMarks(s) ==
    {a \in 1..Len(s) :
        /\ s[a] = "_"
        /\ VersionEndAt(s, a + 1) # 0
        /\ At(s, VersionEndAt(s, a + 1) + 1) = "_"}

\* Lines 43 and 91: re.search(r'_\d+\.\d+\.\d+_', text)
ContainsVersion(s) == VersionMarks(s) # {}

\* Line 47: the suffixes of is_localization_key.
KeySuffixes ==
    { <<"d", "e", "s", "c", "r", "i", "p", "t", "i", "o", "n">>, <<"n", "a",
        "m", "e">>, <<"p", "a", "r", "a", "m", "e", "t", "e", "r">>, <<"i",
        "n", "t", "e", "n", "t">>, <<"e", "n", "t", "i", "t", "y">>, <<"t",
        "y", "p", "e">>,
      <<"t", "i", "t", "l", "e">>, <<"r", "e", "p", "r", "e", "s", "e", "n",
          "t", "a", "t", "i", "o", "n">> }

\* Line 94: the suffixes of get_localization_key_confidence.
ScoreSuffixes ==
    { <<"d", "e", "s", "c", "r", "i", "p", "t", "i", "o", "n">>, <<"i", "n",
        "t", "e", "n", "t">>, <<"e", "n", "t", "i", "t", "y">>, <<"t", "y",
        "p", "e">>, <<"p", "a", "r", "a", "m", "e", "t", "e", "r">>,
      <<"r", "e", "p", "r", "e", "s", "e", "n", "t", "a", "t", "i", "o",
          "n">>, <<"t", "i", "t", "l", "e">> }

\* re.search(r'_(a|b|...)$', text, re.IGNORECASE)
EndsWithSuffix(s, suffixes) ==
    \E suffix \in suffixes : EndsWith(LowerText(s), <<"_">> \o suffix)

\* Line 54: the markers of a constant-case key.
ConstantMarkers ==
    { <<"_", "I", "N", "T", "E", "N", "T", "_">>, <<"_", "T", "I", "T", "L",
        "E">>, <<"_", "D", "E", "S", "C", "R", "I", "P", "T", "I", "O",
        "N">>, <<"_", "N", "A", "M", "E">>, <<"_", "P", "A", "R", "A", "M",
        "E", "T", "E", "R">> }

\* Lines 52-55.
LooksConstant(s) ==
    /\ IsUpper(s) /\ Contains(s, <<"_">>) /\ Len(s) > 15
    /\ \E marker \in ConstantMarkers : Contains(s, marker)

\* Line 59: re.search(r'\w+_\w+_\d+\.\d+\.\d+_\w+', text): a version mark
\* with \w+_\w+ ending right in front of it and _\w after the triplet.
ContainsEmbeddedKey(s) ==
    \E a \in VersionMarks(s) :
        /\ At(s, VersionEndAt(s, a + 1) + 2) \in WordChar
        /\ \E u \in 2..(a - 2) :
               /\ s[u] = "_"
               /\ \A j \in (u - 1)..(a - 1) : s[j] \in WordChar

\* Line 66: the components of a snake-case key.
KeyComponents ==
    { <<"i", "n", "t", "e", "n", "t">>, <<"e", "n", "t", "i", "t", "y">>,
        <<"p", "a", "r", "a", "m", "e", "t", "e", "r">>, <<"d", "e", "s",
        "c", "r", "i", "p", "t", "i", "o", "n">>, <<"r", "e", "p", "r", "e",
        "s", "e", "n", "t", "a", "t", "i", "o", "n">> }

\* Lines 64-67.
LooksSnakeCase(s) ==
    /\ Count(s, <<"_">>) >= 4 /\ ~Contains(s, <<" ">>)
    /\ \E comp \in KeyComponents : Contains(LowerText(s), comp)

\* Lines 23-69.
is_localization_key(text) ==
    IF ~Truthy(text) \/ ~IsStr(text) THEN FALSE
    ELSE LET s == text.text
         IN  \/ ContainsVersion(s)
             \/ EndsWithSuffix(s, KeySuffixes)
             \/ LooksConstant(s)
             \/ ContainsEmbeddedKey(s)
             \/ LooksSnakeCase(s)

\* Line 111: text[0].isupper() and len(text) > 1 and text[1:].islower()
LooksTitleCase(s) ==
    Len(s) > 0 /\ s[1] \in Upper /\ Len(s) > 1 /\ IsLower(Tail(s))

\* Line 108.
LooksLikeProse(s) ==
    Contains(s, <<" ">>) /\ Count(s, <<" ">>) > Count(s, <<"_">>)

\* score += a when the signal fires.
Bump(score, fires, a) == IF fires THEN FloatAdd(score, a) ELSE score

\* Line 114 without the upper limit.
ClampNoCeiling(score) == FloatMax(Dec(0), score)

\* Line 114: max(0.0, min(1.0, score))
Clamp(score) == FloatMax(Dec(0), FloatMin(Dec(100), score))

\* Lines 72-114.
get_localization_key_confidence(text) ==
    IF ~Truthy(text) \/ ~IsStr(text) THEN Dec(0)
    ELSE LET s  == text.text
             s1 == Bump(Dec(0), ContainsVersion(s), 60)
             s2 == Bump(s1, EndsWithSuffix(s, ScoreSuffixes), 40)
             s3 == Bump(s2, Count(s, <<"_">>) >= 4, 20)
             s4 == Bump(s3, ~Contains(s, <<" ">>) /\ Len(s) > 20, 15)
             s5 == Bump(s4, IsUpper(s) /\ Contains(s, <<"_">>), 30)
             s6 == Bump(s5, LooksLikeProse(s), -40)
             s7 == Bump(s6, LooksTitleCase(s), -30)
         IN  Clamp(s7)

(***************************************************************************)
(* camel_case_to_title and constant_to_title.                              *)
(***************************************************************************)
\* Line 138: ([A-Z]+)([A-Z][a-z]) matches from the start of a run of two
\* or more capitals that a lowercase letter follows, and the space goes in
\* front of the last capital of the run.
AcronymBreaks(s) ==
    {k \in 2..(Len(s) - 1) :
        s[k - 1] \in Upper /\ s[k] \in Upper /\ s[k + 1] \in Lower}

\* Line 142: ([a-z])([A-Z])
CamelBreaks(s) == {k \in 2..Len(s) : s[k - 1] \in Lower /\ s[k] \in Upper}

\* s from position k on, with a space in front of every position of breaks.
RECURSIVE SpaceBefore(_, _, _)
SpaceBefore(s, breaks, k) ==
    IF k > Len(s) THEN << >>
    ELSE (IF k \in breaks THEN <<" ", s[k]>> ELSE <<s[k]>>)
             \o SpaceBefore(s, breaks, k + 1)

\* Lines 149-154.
RECURSIVE TitleWords(_)
TitleWords(words) ==
    IF words = << >> THEN << >>
    ELSE LET word == Head(words)
         IN  <<IF UpperText(word) \in KNOWN_ACRONYMS THEN UpperText(word)
               ELSE Capitalize(word)>> \o TitleWords(Tail(words))

\* Lines 117-156.
camel_case_to_title(text) ==
    IF text = << >> THEN text
    ELSE LET r1 == SpaceBefore(text, AcronymBreaks(text), 1)
             r2 == SpaceBefore(r1, CamelBreaks(r1), 1)
         IN  Join(TitleWords(SplitWords(r2)), <<" ">>)

\* Line 177: the suffixes, in the order they are tried.
ConstantSuffixes ==
    << <<"_", "I", "N", "T", "E", "N", "T", "_", "T", "I", "T", "L", "E">>,
        <<"_", "I", "N", "T", "E", "N", "T", "_", "D", "E", "S", "C", "R",
        "I", "P", "T", "I", "O", "N">>, <<"_", "I", "N", "T", "E", "N",
        "T">>, <<"_", "T", "I", "T", "L", "E">>,
       <<"_", "D", "E", "S", "C", "R", "I", "P", "T", "I", "O", "N">>, <<"_",
           "N", "A", "M", "E">> >>

\* Lines 177-180: the first suffix text ends with is cut off.
RECURSIVE CutSuffix(_, _)
CutSuffix(text, n) ==
    IF n > Len(ConstantSuffixes) THEN text
    ELSE IF EndsWith(text, ConstantSuffixes[n])
         THEN Chop(text, Len(ConstantSuffixes[n]))
         ELSE CutSuffix(text, n + 1)

\* Lines 187-191.
RECURSIVE ConstantWords(_)
ConstantWords(words) ==
    IF words = << >> THEN << >>
    ELSE LET word == Head(words)
         IN  <<IF word \in KNOWN_ACRONYMS THEN word ELSE Capitalize(word)>>
                 \o ConstantWords(Tail(words))

\* Lines 159-193.
constant_to_title(text) ==
    IF text = << >> THEN text
    ELSE Join(ConstantWords(SplitOn(CutSuffix(text, 1), "_")), <<" ">>)

(***************************************************************************)
(* parse_localization_key (localization_parser.py 196-328).                *)
(***************************************************************************)
\* pattern_type: None
NoPattern == "None"

\* components: {}
NoComponents == [k \in {} |-> << >>]

\* Lines 218-225 with a confidence that is not zero.
InitialAnalysisUnsure(key) ==
    [is_key |-> FALSE, pattern_type |-> NoPattern, extracted_name |-> key,
     confidence |-> Dec(50), components |-> NoComponents, original |-> key]

\* Lines 218-225: the result before any rule has run.
InitialAnalysis(key) ==
    [is_key |-> FALSE, pattern_type |-> NoPattern, extracted_name |-> key,
     confidence |-> Dec(0), components |-> NoComponents, original |-> key]

\* Every rule of lines 240, 262 and 278 is matched from the start of the
\* key and begins (\w+)_(...)_(\d+\.\d+\.\d+), so the first character of
\* the key that is not a word character is the first dot of the triplet.
\* The key is cut into the text in front of the underscore that precedes
\* the triplet, the triplet, and the rest.
VersionSplit(s) ==
    LET dot    == LeadingRun(s, 1, WordChar) + 1
        vstart == dot - TrailingRun(SubSeq(s, 1, dot - 1), Digit)
        vend   == VersionEndAt(s, vstart)
    IN  IF At(s, dot) = "." /\ vstart < dot /\ At(s, vstart - 1) = "_"
           /\ vend # 0
        THEN [ok |-> TRUE, head |-> SubSeq(s, 1, vstart - 2),
              version |-> SubSeq(s, vstart, vend),
              rest |-> SubSeq(s, vend + 1, Len(s))]
        ELSE [ok |-> FALSE, head |-> << >>, version |-> << >>,
              rest |-> << >>]

\* head[u+1:] for an underscore at u.
After(head, u) == SubSeq(head, u + 1, Len(head))

\* The underscores of head that leave a non-empty text in front.
Cuts(head) == {u \in 2..Len(head) : head[u] = "_"}

Max(S) == CHOOSE x \in S : \A y \in S : x >= y

\* (\w+)_(second group): the first group is greedy, so the cut is the last
\* underscore that leaves a second group of the wanted shape.
EntityCuts(head) ==
    {u \in Cuts(head) :
        /\ Len(After(head, u)) >= 7
        /\ EndsWith(LowerText(After(head, u)), <<"e", "n", "t", "i", "t",
            "y">>)}

IntentCuts(head) ==
    {u \in Cuts(head) :
        /\ Len(After(head, u)) >= 7
        /\ EndsWith(After(head, u), <<"I", "n", "t", "e", "n", "t">>)}

CapitalCuts(head) ==
    {u \in Cuts(head) :
        /\ Len(After(head, u)) >= 2
        /\ head[u + 1] \in Upper}

\* Line 240 with the underscore in front of the rest left out.
EntityRestBare ==
    <<"e", "n", "t", "i", "t", "y", "_", "t", "y", "p", "e", "_", "d", "i",
      "s", "p", "l", "a", "y", "_", "r", "e", "p", "r", "e", "s", "e", "n",
      "t", "a", "t", "i", "o", "n">>

\* Line 240: the rest of an entity-type key (re.IGNORECASE).
EntityRest == <<"_", "e", "n", "t", "i", "t", "y", "_", "t", "y", "p", "e",
    "_", "d", "i", "s", "p", "l", "a", "y", "_", "r", "e", "p", "r", "e",
    "s", "e", "n", "t", "a", "t", "i", "o", "n">>

\* Line 262: what stands around the parameter name.
ParameterLead == <<"_", "i", "n", "t", "e", "n", "t", "_", "p", "a", "r",
    "a", "m", "e", "t", "e", "r", "_">>
ParameterTail == <<"_", "d", "e", "s", "c", "r", "i", "p", "t", "i", "o",
    "n">>

\* Line 262: (\w+) between _intent_parameter_ and _description$
ParameterName(rest) ==
    SubSeq(rest, Len(ParameterLead) + 1, Len(rest) - Len(ParameterTail))

IsParameterRest(rest) ==
    /\ Len(rest) > Len(ParameterLead) + Len(ParameterTail)
    /\ StartsWith(rest, ParameterLead) /\ EndsWith(rest, ParameterTail)
    /\ \A k \in 1..Len(ParameterName(rest)) :
           ParameterName(rest)[k] \in WordChar

\* Lines 250-256: the label of an entity.
EntityLabel(entity) ==
    LET entity_name == Chop(entity, 6)
    IN  IF entity_name[1] \in Upper \/ ~Contains(entity_name, <<"_">>)
        THEN camel_case_to_title(entity_name)
        ELSE Join(MapCapitalize(SplitOn(entity_name, "_")), <<" ">>)

\* Line 310: re.match(r'^[A-Z][a-z]+[A-Z]', p)
IsCamelPart(p) ==
    /\ At(p, 1) \in Upper
    /\ LeadingRun(p, 2, Lower) >= 1
    /\ At(p, 2 + LeadingRun(p, 2, Lower)) \in Upper

\* A part counts only when it has more than five characters.
IsMeaningfulLong(p) == Len(p) > 5 /\ ~IsDigit(p)

\* Line 316.
IsMeaningful(p) == Len(p) > 3 /\ ~IsDigit(p)

\* Line 318: max(parts, key=len) is the first of the longest parts.
Longest(parts) ==
    parts[Min({k \in 1..Len(parts) :
                  \A j \in 1..Len(parts) : Len(parts[j]) <= Len(parts[k])})]

\* Lines 241-258.
EntityAnalysis(base, v) ==
    LET u      == Max(EntityCuts(v.head))
        entity == After(v.head, u)
    IN  [base EXCEPT
            !.pattern_type = "entity_type",
            !.components = [app |-> SubSeq(v.head, 1, u - 1),
                            entity |-> entity, version |-> v.version],
            !.extracted_name = PyStr(EntityLabel(entity)),
            !.confidence = FloatMax(base.confidence, Dec(90))]

\* Lines 263-274.
ParameterAnalysis(base, v) ==
    LET u == Max(IntentCuts(v.head))
    IN  [base EXCEPT
            !.pattern_type = "parameter_description",
            !.components = [app |-> SubSeq(v.head, 1, u - 1),
                            intent |-> After(v.head, u),
                            version |-> v.version,
                            parameter |-> ParameterName(v.rest)],
            !.extracted_name =
                PyStr(camel_case_to_title(ParameterName(v.rest))),
            !.confidence = FloatMax(base.confidence, Dec(85))]

\* Lines 279-290.
VersionAnalysis(base, v) ==
    LET u      == Max(CapitalCuts(v.head))
        entity == After(v.head, u)
    IN  [base EXCEPT
            !.pattern_type = "version_based",
            !.components = [prefix |-> SubSeq(v.head, 1, u - 1),
                            entity |-> entity, version |-> v.version,
                            suffix |-> Tail(v.rest)],
            !.extracted_name = PyStr(camel_case_to_title(entity)),
            !.confidence = FloatMax(base.confidence, Dec(90))]

\* Lines 294-301.
ConstantAnalysis(base, s) ==
    [base EXCEPT
        !.pattern_type = "constant_case",
        !.components = [words |-> SplitOn(s, "_")],
        !.extracted_name = PyStr(constant_to_title(s)),
        !.confidence = FloatMax(base.confidence, Dec(85))]

\* Lines 305-323.
GenericAnalysis(base, s) ==
    LET parts       == SplitOn(s, "_")
        camel_parts == SelectSeq(parts, IsCamelPart)
        meaningful  == SelectSeq(parts, IsMeaningful)
        named       ==
            IF camel_parts # << >>
            THEN [base EXCEPT
                    !.extracted_name =
                        PyStr(camel_case_to_title(camel_parts[1])),
                    !.confidence = FloatMax(base.confidence, Dec(70))]
            ELSE IF meaningful # << >>
            THEN [base EXCEPT
                    !.extracted_name = PyStr(Capitalize(Longest(meaningful))),
                    !.confidence = FloatMax(base.confidence, Dec(60))]
            ELSE base
    IN  [named EXCEPT !.pattern_type = "generic_underscore",
                      !.components = [parts |-> parts]]

\* Lines 326-328.
UnknownAnalysis(base) ==
    [base EXCEPT !.pattern_type = "unknown", !.confidence = Dec(50)]

\* Lines 196-328.
parse_localization_key(key) ==
    IF ~Truthy(key) \/ ~IsStr(key) THEN InitialAnalysis(key)
    ELSE IF ~is_localization_key(key) THEN InitialAnalysis(key)
    ELSE LET s    == key.text
             v    == VersionSplit(s)
             base == [InitialAnalysis(key) EXCEPT
                         !.is_key = TRUE,
                         !.confidence = get_localization_key_confidence(key)]
         IN  IF /\ v.ok /\ EntityCuts(v.head) # {}
                /\ LowerText(v.rest) = EntityRest
             THEN EntityAnalysis(base, v)
             ELSE IF v.ok /\ IntentCuts(v.head) # {} /\ IsParameterRest(v.rest)
             THEN ParameterAnalysis(base, v)
             ELSE IF /\ v.ok /\ CapitalCuts(v.head) # {}
                     /\ Len(v.rest) >= 2 /\ v.rest[1] = "_"
             THEN VersionAnalysis(base, v)
             ELSE IF IsUpper(s) /\ Contains(s, <<"_">>)
             THEN ConstantAnalysis(base, s)
             ELSE IF Contains(s, <<"_">>)
             THEN GenericAnalysis(base, s)
             ELSE UnknownAnalysis(base)

(***************************************************************************)
(* clean_embedded_keys (localization_parser.py 331-373).                   *)
(***************************************************************************)
\* The last position of the run of word characters that starts at k.
RunEnd(s, k) == k + LeadingRun(s, k, WordChar) - 1

\* Line 350: \b(\w+_\w+_\d+\.\d+\.\d+_\w+)\b can only match from the start
\* of a run of word characters; the run must be \w+_\w+_\d+ and stand in
\* front of the first dot, and the match ends with the run of word
\* characters that holds the third number.  The position of the last
\* character of the match that starts at k, or 0.
EmbeddedKeyEnd(s, k) ==
    LET m      == RunEnd(s, k)
        vstart == m + 1 - TrailingRun(SubSeq(s, k, m), Digit)
        vend   == VersionEndAt(s, vstart)
    IN  IF /\ vstart <= m /\ At(s, vstart - 1) = "_"
           /\ \E u \in (k + 1)..(vstart - 3) : s[u] = "_"
           /\ vend # 0
           /\ At(s, vend + 1) = "_" /\ At(s, vend + 2) \in WordChar
        THEN RunEnd(s, vend + 1) ELSE 0

ReplaceAboveHalf == Dec(50)

\* Line 355: the confidence a replacement needs to exceed.
ReplaceAbove == Dec(70)

\* Lines 352-357.
replace_key(key) ==
    LET parsed == parse_localization_key(PyStr(key))
    IN  IF parsed.is_key /\ FloatGT(parsed.confidence, ReplaceAbove)
        THEN LowerText(parsed.extracted_name.text)
        ELSE key

\* Line 359: re.sub(pattern, replace_key, text) from the start k of a run
\* of word characters, or from a character that is not a word character.
RECURSIVE ReplaceKeys(_, _)
ReplaceKeys(s, k) ==
    IF k > Len(s) THEN << >>
    ELSE IF s[k] \notin WordChar THEN <<s[k]>> \o ReplaceKeys(s, k + 1)
    ELSE IF EmbeddedKeyEnd(s, k) # 0
    THEN replace_key(SubSeq(s, k, EmbeddedKeyEnd(s, k)))
             \o ReplaceKeys(s, EmbeddedKeyEnd(s, k) + 1)
    ELSE SubSeq(s, k, RunEnd(s, k)) \o ReplaceKeys(s, RunEnd(s, k) + 1)

\* Line 363: \b([A-Z][A-Z_]{10,})\b matches a whole run of word characters
\* of 11 or more capitals and underscores that starts with a capital.
IsConstantRun(run) ==
    /\ Len(run) >= 11 /\ run[1] \in Upper
    /\ \A k \in 1..Len(run) : run[k] \in Upper \cup {"_"}

\* Lines 365-369.
replace_constant(key) ==
    IF /\ Contains(key, <<"_">>)
       /\ FloatGT(get_localization_key_confidence(PyStr(key)), ReplaceAbove)
    THEN LowerText(constant_to_title(key))
    ELSE key

\* Line 371: re.sub(constant_pattern, replace_constant, result)
RECURSIVE ReplaceConstants(_, _)
ReplaceConstants(s, k) ==
    IF k > Len(s) THEN << >>
    ELSE IF s[k] \notin WordChar
    THEN <<s[k]>> \o ReplaceConstants(s, k + 1)
    ELSE LET run == SubSeq(s, k, RunEnd(s, k))
         IN  (IF IsConstantRun(run) THEN replace_constant(run) ELSE run)
                 \o ReplaceConstants(s, RunEnd(s, k) + 1)

\* Lines 331-373.
clean_embedded_keys(text) ==
    IF ~Truthy(text) \/ ~IsStr(text) THEN text
    ELSE PyStr(ReplaceConstants(ReplaceKeys(text.text, 1), 1))

(***************************************************************************)
(* generate_readable_name (localization_parser.py 376-438).                *)
(***************************************************************************)
\* Lines 395-401.
InitialName(key) ==
    [value |-> key, is_synthetic |-> FALSE, original_key |-> PyNone,
     confidence |-> Dec(100), source |-> "original"]

\* A fallback that is marked as generated.
UseFallbackSynthetic(result, fallback) ==
    [result EXCEPT !.value = fallback, !.source = "fallback",
                   !.is_synthetic = TRUE]

\* Lines 405-406 and 435-436.
UseFallback(result, fallback) ==
    [result EXCEPT !.value = fallback, !.source = "fallback"]

\* Lines 418-422.
UseCleaned(result, key, cleaned) ==
    [result EXCEPT !.value = cleaned, !.is_synthetic = TRUE,
                   !.original_key = key, !.confidence = Dec(85),
                   !.source = "cleaned_embedded"]

\* Lines 429-433.
UseParsed(result, key, parsed) ==
    [result EXCEPT !.value = parsed.extracted_name, !.is_synthetic = TRUE,
                   !.original_key = key, !.confidence = parsed.confidence,
                   !.source = "parsed_key"]

\* Line 428 with a lower threshold.
AcceptAboveHalf == Dec(50)

\* Line 428: the confidence a parsed key needs to exceed.
AcceptAbove == Dec(60)

\* Lines 376-438.
generate_readable_name(key, fallback) ==
    LET result == InitialName(key)
    IN  IF ~Truthy(key) \/ ~IsStr(key)
        THEN IF Truthy(fallback) THEN UseFallback(result, fallback)
             ELSE result
        ELSE IF ~is_localization_key(key) THEN result
        ELSE IF /\ Contains(key.text, <<" ">>)
                /\ clean_embedded_keys(key) # key
        THEN UseCleaned(result, key, clean_embedded_keys(key))
        ELSE LET parsed == parse_localization_key(key)
             IN  IF parsed.is_key /\ FloatGT(parsed.confidence, AcceptAbove)
                 THEN UseParsed(result, key, parsed)
                 ELSE IF Truthy(fallback) THEN UseFallback(result, fallback)
                 ELSE result

----------------------------------------------------------------------------
(* decode_varint (protobuf_parser.py 195-218).                             *)

\* The consumed count after which the loop gives up.
VarintCap == 10

\* One pass of `for byte in data`: consumed bytes so far, value and shift.
RECURSIVE VarintLoop(_, _, _, _)
VarintLoop(data, consumed, value, shift) ==
    IF consumed >= Len(data) THEN <<value, consumed>>
    ELSE LET byte == data[consumed + 1]
             c    == consumed + 1
             v    == value \cup ShiftLeft(DataBits(byte), shift)
         IN  IF ~HasContinuation(byte) THEN <<v, c>>
             ELSE IF c > VarintCap THEN <<v, c>>
             ELSE VarintLoop(data, c, v, shift + 7)

\* (value, consumed)
decode_varint(data) == VarintLoop(data, 0, {}, 0)

\* Whether the bytes consumed end with a terminating byte (high bit clear).
VarintTerminated(data) ==
    LET n == decode_varint(data)[2]
    IN  n >= 1 /\ ~HasContinuation(data[n])

----------------------------------------------------------------------------
(* Decoding bytes as text.                                                 *)

\* bytes.decode('utf-8') succeeds.  No chunk holds a UTF-8 lead byte
\* (0xC2..0xF4), so a byte of 0x80 or more is never part of a valid sequence.
Utf8Decodes(data) == \A k \in 1..Len(data) : data[k] < 128

\* str.isprintable() of decoded ASCII text.
IsPrintable(data) == \A k \in 1..Len(data) : data[k] >= 32 /\ data[k] <= 126

----------------------------------------------------------------------------
(* extract_strings_from_blob (protobuf_parser.py 137-192).                 *)

\* min_length: int = 3
DefaultMinLength == 3

\* The characters of the bytes 0x20..0x7e.
AsciiChars ==
    <<" ", "!", "\"", "#", "$", "%", "&", "'", "(", ")", "*", "+", ",",
      "-", ".", "/", "0", "1", "2", "3", "4", "5", "6", "7", "8", "9", ":",
      ";", "<", "=", ">", "?", "@", "A", "B", "C", "D", "E", "F", "G", "H",
      "I", "J", "K", "L", "M", "N", "O", "P", "Q", "R", "S", "T", "U", "V",
      "W", "X", "Y", "Z", "[", "\\", "]", "^", "_", Backtick, "a", "b",
      "c", "d", "e", "f", "g", "h", "i", "j", "k", "l", "m", "n", "o", "p",
      "q", "r", "s", "t", "u", "v", "w", "x", "y", "z", "{", "|", "}", "~">>

\* bytes.decode('ascii') of printable bytes.
Chr(b) == AsciiChars[b - 31]

Text(data) == [k \in 1..Len(data) |-> Chr(data[k])]

\* s in raw_strings
InList(s, list) == \E k \in 1..Len(list) : list[k] = s

\* The length of the run of printable bytes that starts at position k.
PrintableRun(data, k) ==
    Min({j \in k..Len(data) : ~IsPrintable(<<data[j]>>)}
            \cup {Len(data) + 1}) - k

\* The first position from k on that holds a printable byte, or len + 1.
NextPrintable(data, k) ==
    Min({j \in k..Len(data) : IsPrintable(<<data[j]>>)} \cup {Len(data) + 1})

\* Lines 156-159: the matches of [\x20-\x7e]{min_length,}, from position k
\* on: the maximal runs of printable bytes of min_length bytes or more.
RECURSIVE AsciiMatches(_, _, _)
AsciiMatches(data, k, min_length) ==
    LET a == NextPrintable(data, k)
        n == PrintableRun(data, a)
    IN  IF a > Len(data) THEN << >>
        ELSE IF n >= min_length
               THEN <<Text(SubSeq(data, a, a + n - 1))>>
                        \o AsciiMatches(data, a + n, min_length)
        ELSE AsciiMatches(data, a + n, min_length)

\* bytes.decode('utf-8', errors='ignore'): the bytes that are not part of a
\* valid sequence are dropped.  No chunk holds a UTF-8 lead byte, so these
\* are the bytes of 0x80 and more.
Utf8Ignore(data) == SelectSeq(data, LAMBDA b : b < 128)

\* The first offset from k on that the loop of line 165 reaches and that
\* holds a byte of wire type 2, or len(blob) if there is none: the loop
\* steps over the bytes of other wire types one by one.
NextPrefix(data, k) ==
    Min({j \in k..(Len(data) - 3) : data[j + 1] % 8 = 2} \cup {Len(data)})

\* Lines 165-180: the scan for length-prefixed strings, from offset k on.
RECURSIVE PrefixedFrom(_, _, _, _)
PrefixedFrom(data, k, raw, min_length) ==
    LET t == NextPrefix(data, k)
    IN  IF ~(t < Len(data) - 2) THEN raw
        ELSE LET d      == decode_varint(SliceFrom(data, t + 1))
                 length == ToNat(d[1])
                 start  == t + 1 + d[2]
                 end    == start + length
                 s      == Utf8Ignore(Slice(data, start, end))
                 found  == /\ length > 0 /\ length < 1000
                           /\ end <= Len(data)
                           /\ IsPrintable(s) /\ Len(s) >= min_length
                           /\ ~InList(Text(s), raw)
             IN  PrefixedFrom(data, t + 2,
                              IF found THEN Append(raw, Text(s)) ELSE raw,
                              min_length)

\* raw_strings after both scans.
RawStrings(data, min_length) ==
    PrefixedFrom(data, 0, AsciiMatches(data, 1, min_length), min_length)

\* Lines 187-190: sanitize raw[k..], keeping each result once.
RECURSIVE SanitizeAllKeepAll(_, _, _)
SanitizeAllKeepAll(raw, k, list) ==
    IF k > Len(raw) THEN list
    ELSE LET cleaned == sanitize_extracted_string(raw[k])
         IN  SanitizeAllKeepAll(raw, k + 1,
                 IF cleaned.ok THEN Append(list, cleaned.text) ELSE list)

RECURSIVE SanitizeAll(_, _, _)
SanitizeAll(raw, k, list) ==
    IF k > Len(raw) THEN list
    ELSE LET cleaned == sanitize_extracted_string(raw[k])
         IN  SanitizeAll(raw, k + 1,
                 IF cleaned.ok /\ ~InList(cleaned.text, list)
                   THEN Append(list, cleaned.text) ELSE list)

extract_strings_from_blob(data, min_length) ==
    IF data = << >> THEN << >>
    ELSE SanitizeAll(RawStrings(data, min_length), 1, << >>)

----------------------------------------------------------------------------
(* decode_protobuf_blob (protobuf_parser.py 221-301).                      *)

\* The chunks blobs are built of: bytes that serve as tags, lengths and
\* values, a whole varint field, two letters, and a run of ten continuation
\* bytes.
\*   0x08 tag(field 1, varint)     0x05 tag(field 0, 32-bit)
\*   0x09 tag(field 1, 64-bit)     0x02 tag(field 0, length-delimited)
\*   0x07 tag(field 0, wire type 7)   0x41 'A'   0x80 continuation, value 0
BlobChunks ==
    { <<8>>, <<8, 5>>, <<8, 7>>, <<5>>, <<9>>, <<2>>, <<7>>, <<65, 65>>,
      <<128>>, <<128, 128, 128, 128, 128, 128, 128, 128, 128, 128>> }

RECURSIVE Flatten(_)
Flatten(chunks) ==
    IF chunks = << >> THEN << >> ELSE Head(chunks) \o Flatten(Tail(chunks))

SeqsUpTo(S, n) == UNION {[1..k -> S] : k \in 0..n}

\* A payload of more bytes than the 1000 a plausible length has, behind a
\* tag of wire type 2 and its length varint of two bytes; a varint field
\* may stand in front of it and behind it.
LongLength == 1001

LongBlobs ==
    {pre \o <<2, 128 + (LongLength % 128), LongLength \div 128>>
         \o [k \in 1..LongLength |-> 0] \o post :
        pre \in {<< >>, <<8, 5>>}, post \in {<< >>, <<8, 7>>}}

BlobInputs ==
    {Flatten(cs) : cs \in SeqsUpTo(BlobChunks, MaxChunks)} \cup LongBlobs

\* f'field_{field_number}_<kind>'
FieldKey(number, kind) == [num |-> number, kind |-> kind]

IntValue(v)      == [t |-> "int", bits |-> v, raw |-> << >>]
RawValue(t, raw) == [t |-> t, bits |-> {}, raw |-> raw]

\* result['fields'][key] = value: a dict assignment replaces the value a key
\* already has.
Put(map, key, value) ==
    [k \in DOMAIN map \cup {key} |-> IF k = key THEN value ELSE map[k]]

NoFields == [k \in {} |-> 0]

\* Line 248-251: the tag at the current offset.
Tag         == decode_varint(SliceFrom(blob, i))
FieldNumber == ShiftRight(Tag[1], 3)
WireType    == ToNat(Tag[1] \cap {0, 1, 2})
AfterTag    == i + Tag[2]
TagComplete == VarintTerminated(SliceFrom(blob, i))

Record(key, value, valueComplete) ==
    /\ fields' = Put(fields, key, value)
    /\ log' = Append(log, [key |-> key, value |-> value, at |-> i,
                           complete |-> TagComplete /\ valueComplete])

\* The values of the variables of the functions that are not running.
ResIdle ==
    /\ resultKeys = {} /\ rawStrings = << >> /\ strings = << >>
    /\ minLength = DefaultMinLength

WireIdle ==
    /\ blob = << >> /\ i = 0 /\ fields = NoFields /\ log = << >>
    /\ stop = "none" /\ ResIdle

VarintIdle == vin = {} /\ vbytes = << >> /\ vout = <<{}, 0>>

SanIdle == rawText = << >> /\ clean = None /\ again = None

LocIdle ==
    /\ locKey = PyNone /\ locFallback = PyNone /\ locScore = Dec(0)
    /\ locParsed = InitialAnalysis(PyNone)
    /\ locReadable = InitialName(PyNone) /\ locCleaned = PyNone
    /\ locTitle = << >>

\* Line 235-239: the keys of result.
ResultKeysNoStrings == {"raw_size", "fields"}

ResultKeys == {"raw_size", "fields", "strings"}

\* Lines 232-239: an empty blob returns {} at once; otherwise result is
\* made, with the strings extract_strings_from_blob finds.
Begin ==
    /\ pc = "start"
    /\ IF blob = << >>
         THEN /\ pc' = "done" /\ stop' = "empty"
              /\ UNCHANGED <<resultKeys, strings>>
         ELSE /\ pc' = "scan" /\ stop' = stop
              /\ resultKeys' = ResultKeys
              /\ strings' = extract_strings_from_blob(blob, DefaultMinLength)
    /\ UNCHANGED <<blob, i, fields, log, rawStrings, minLength, varintVars,
                   sanVars, locVars>>

\* Line 243: while i < len(blob)
LoopExit ==
    /\ pc = "scan" /\ i >= Len(blob)
    /\ pc' = "done" /\ stop' = "end"
    /\ UNCHANGED <<blob, i, fields, log, resVars, varintVars,
                 sanVars, locVars>>

\* Lines 254-257: wire type 0.
FieldVarint ==
    /\ pc = "scan" /\ i < Len(blob) /\ WireType = 0
    /\ LET d == decode_varint(SliceFrom(blob, AfterTag))
       IN  /\ Record(FieldKey(FieldNumber, "varint"), IntValue(d[1]),
                     VarintTerminated(SliceFrom(blob, AfterTag)))
           /\ i' = AfterTag + d[2]
    /\ UNCHANGED <<blob, pc, stop, resVars, varintVars,
                 sanVars, locVars>>

\* Lines 259-263: wire type 1 with 8 bytes left.
Field64 ==
    /\ pc = "scan" /\ i < Len(blob) /\ WireType = 1
    /\ AfterTag + 8 <= Len(blob)
    /\ Record(FieldKey(FieldNumber, "64bit"),
              RawValue("double", Slice(blob, AfterTag, AfterTag + 8)), TRUE)
    /\ i' = AfterTag + 8
    /\ UNCHANGED <<blob, pc, stop, resVars, varintVars,
                 sanVars, locVars>>

\* Lines 264-265: wire type 1, fewer than 8 bytes left.
Stop64 ==
    /\ pc = "scan" /\ i < Len(blob) /\ WireType = 1
    /\ ~(AfterTag + 8 <= Len(blob))
    /\ pc' = "done" /\ stop' = "short64" /\ i' = AfterTag
    /\ UNCHANGED <<blob, fields, log, resVars, varintVars,
                 sanVars, locVars>>

\* A scan that records the payload of wire type 2 in hex whatever it holds.
FieldBytesAsHex ==
    /\ pc = "scan" /\ i < Len(blob) /\ WireType = 2
    /\ LET d      == decode_varint(SliceFrom(blob, AfterTag))
           length == ToNat(d[1])
           at     == AfterTag + d[2]
           data   == Slice(blob, at, at + length)
           ok     == VarintTerminated(SliceFrom(blob, AfterTag))
       IN  /\ at + length <= Len(blob)
           /\ Record(FieldKey(FieldNumber, "bytes"), RawValue("hex", data), ok)
           /\ i' = at + length
    /\ UNCHANGED <<blob, pc, stop, resVars, varintVars,
                 sanVars, locVars>>

\* Lines 267-282: wire type 2 whose payload lies within the blob.
FieldBytes ==
    /\ pc = "scan" /\ i < Len(blob) /\ WireType = 2
    /\ LET d      == decode_varint(SliceFrom(blob, AfterTag))
           length == ToNat(d[1])
           at     == AfterTag + d[2]
           data   == Slice(blob, at, at + length)
           ok     == VarintTerminated(SliceFrom(blob, AfterTag))
       IN  /\ at + length <= Len(blob)
           /\ IF Utf8Decodes(data) /\ IsPrintable(data)
                THEN Record(FieldKey(FieldNumber, "string"),
                            RawValue("str", data), ok)
                ELSE Record(FieldKey(FieldNumber, "bytes"),
                            RawValue("hex", data), ok)
           /\ i' = at + length
    /\ UNCHANGED <<blob, pc, stop, resVars, varintVars,
                 sanVars, locVars>>

\* Lines 283-284: wire type 2 whose payload would end past the blob.
StopBytes ==
    /\ pc = "scan" /\ i < Len(blob) /\ WireType = 2
    /\ LET d      == decode_varint(SliceFrom(blob, AfterTag))
           length == ToNat(d[1])
           at     == AfterTag + d[2]
       IN  /\ ~(at + length <= Len(blob))
           /\ i' = at
    /\ pc' = "done" /\ stop' = "shortbytes"
    /\ UNCHANGED <<blob, fields, log, resVars, varintVars,
                 sanVars, locVars>>

\* Lines 286-290: wire type 5 with 4 bytes left.
Field32 ==
    /\ pc = "scan" /\ i < Len(blob) /\ WireType = 5
    /\ AfterTag + 4 <= Len(blob)
    /\ Record(FieldKey(FieldNumber, "32bit"),
              RawValue("float", Slice(blob, AfterTag, AfterTag + 4)), TRUE)
    /\ i' = AfterTag + 4
    /\ UNCHANGED <<blob, pc, stop, resVars, varintVars,
                 sanVars, locVars>>

\* Lines 291-292: wire type 5, fewer than 4 bytes left.
Stop32 ==
    /\ pc = "scan" /\ i < Len(blob) /\ WireType = 5
    /\ ~(AfterTag + 4 <= Len(blob))
    /\ pc' = "done" /\ stop' = "short32" /\ i' = AfterTag
    /\ UNCHANGED <<blob, fields, log, resVars, varintVars,
                 sanVars, locVars>>

\* A scan that steps over a tag of any other wire type and goes on.
SkipUnknown ==
    /\ pc = "scan" /\ i < Len(blob) /\ WireType \in {3, 4, 6, 7}
    /\ i' = AfterTag
    /\ UNCHANGED <<blob, pc, stop, fields, log, resVars, varintVars,
                 sanVars, locVars>>

\* Lines 294-296: any other wire type.
StopUnknown ==
    /\ pc = "scan" /\ i < Len(blob) /\ WireType \in {3, 4, 6, 7}
    /\ pc' = "done" /\ stop' = "unknown" /\ i' = AfterTag
    /\ UNCHANGED <<blob, fields, log, resVars, varintVars,
                 sanVars, locVars>>

Init ==
    /\ blob \in BlobInputs
    /\ pc = "start" /\ i = 0 /\ fields = NoFields /\ log = << >>
    /\ stop = "none" /\ ResIdle
    /\ VarintIdle /\ SanIdle /\ LocIdle

Next ==
    \/ Begin \/ LoopExit
    \/ FieldVarint
    \/ Field64 \/ Stop64
    \/ FieldBytes \/ StopBytes
    \/ Field32 \/ Stop32
    \/ StopUnknown

Spec == Init /\ [][Next]_vars

----------------------------------------------------------------------------
(* The varint round trip: encode a value, decode the bytes.                *)

\* The largest position of a 1 bit.
TopBit(x) == CHOOSE j \in x : \A k \in x : k <= j

\* The minimal base-128 encoding: 7 data bits per byte, least-significant
\* group first, the high bit set on every byte but the last.
RECURSIVE EncodeVarint(_)
EncodeVarint(v) ==
    LET low  == BitSum({j \in v : j < 7})
        rest == ShiftRight(v, 7)
    IN  IF rest = {} THEN <<low>> ELSE <<low + 128>> \o EncodeVarint(rest)

\* The number of 7-bit groups a value needs.
MinimalLength(v) == IF v = {} THEN 1 ELSE (TopBit(v) \div 7) + 1

\* The unsigned 64-bit values with at most n 1 bits.
RECURSIVE U64WithBits(_)
U64WithBits(n) ==
    IF n = 0 THEN {{}}
    ELSE U64WithBits(n - 1)
             \cup {x \cup {b} : x \in U64WithBits(n - 1), b \in 0..63}

\* Bytes that follow the encoding in the buffer handed to decode_varint.
Trailers == { << >>, <<1>>, <<128>>, <<255, 255>> }

VInit ==
    /\ vin \in U64WithBits(MaxSetBits)
    /\ pc = "value" /\ vbytes = << >> /\ vout = <<{}, 0>>
    /\ WireIdle /\ SanIdle /\ LocIdle

Encode ==
    /\ pc = "value"
    /\ \E t \in Trailers : vbytes' = EncodeVarint(vin) \o t
    /\ pc' = "encoded"
    /\ UNCHANGED <<wireVars, vin, vout, sanVars, locVars>>

Decode ==
    /\ pc = "encoded"
    /\ vout' = decode_varint(vbytes)
    /\ pc' = "decoded"
    /\ UNCHANGED <<wireVars, vin, vbytes, sanVars, locVars>>

VNext == Encode \/ Decode

SpecVarint == VInit /\ [][VNext]_vars

----------------------------------------------------------------------------
(* Sanitizing a candidate string, and sanitizing the result again.         *)

\* The pieces texts are built of: letters, digits, artifact characters, a
\* quote, punctuation, a space and a bundle-identifier prefix.
SanPieces ==
    { <<"a">>, <<"b", "c">>, <<"A">>, <<"1">>, <<"(">>, <<"*">>, <<"\"">>,
      <<" ">>, <<".">>, <<"!">>, <<"c", "o", "m", ".">> }

SanInputs == {Flatten(ps) : ps \in SeqsUpTo(SanPieces, MaxPieces)}

SInit ==
    /\ rawText \in SanInputs
    /\ pc = "raw" /\ clean = None /\ again = None
    /\ WireIdle /\ VarintIdle /\ LocIdle

\* cleaned = sanitize_extracted_string(s)
Sanitize ==
    /\ pc = "raw"
    /\ clean' = sanitize_extracted_string(rawText)
    /\ pc' = "clean"
    /\ UNCHANGED <<wireVars, varintVars, rawText, again, locVars>>

\* sanitize_extracted_string(cleaned), for a result that was not rejected
Resanitize ==
    /\ pc = "clean" /\ clean.ok
    /\ again' = sanitize_extracted_string(clean.text)
    /\ pc' = "again"
    /\ UNCHANGED <<wireVars, varintVars, rawText, clean, locVars>>

SNext == Sanitize \/ Resanitize

SpecSanitize == SInit /\ [][SNext]_vars

\* C1: idempotence: sanitizing a cleaned string gives the cleaned string.
C1_SanitizeIdempotent ==
    pc = "again" => again = clean

\* C2: length floor: the result is a rejection or a string of at least 3
\* characters.
C2_LengthFloor ==
    pc \in {"clean", "again"} =>
        /\ clean = None \/ (clean.ok /\ Len(clean.text) >= 3)
        /\ again = None \/ (again.ok /\ Len(again.text) >= 3)

\* A text that lost characters to the stripping rules was accepted with
\* exactly 3 characters left.
C2_Witness ==
    /\ pc = "clean" /\ clean.ok /\ Len(clean.text) = 3
    /\ Len(rawText) > 3

----------------------------------------------------------------------------
(* Claims about the wire scan and the varint decoder.                      *)

\* The last assignment the scan made to a key.
LastOf(key) ==
    LET ks == {k \in 1..Len(log) : log[k].key = key}
    IN  log[CHOOSE k \in ks : \A m \in ks : m <= k]

\* C3: truncation safety: when the scan of a (truncated) blob has ended,
\* every field it reports was decoded from tag and value bytes that are all
\* present in the blob; no field is reported whose varint was cut off.
C3_OnlyCompleteFields ==
    pc = "done" => \A key \in DOMAIN fields : LastOf(key).complete

\* C4: partial results: when the scan stops early for want of bytes, every
\* field decoded before the stop is in the returned fields with the value
\* it was decoded with.
C4_PartialResultsKept ==
    (pc = "done" /\ stop \in {"short64", "short32", "shortbytes"}) =>
        \A k \in 1..Len(log) :
            /\ log[k].key \in DOMAIN fields
            /\ fields[log[k].key] = log[k].value

\* C5: varint round trip: decoding the minimal encoding of a 64-bit value
\* gives back the value and the minimal encoding length, whatever bytes
\* follow the encoding.
C5_VarintRoundTrip ==
    pc = "decoded" => vout = <<vin, MinimalLength(vin)>>

\* A ten-byte encoding (bit 63 set) followed by further bytes was decoded.
C5_Witness ==
    /\ pc = "decoded" /\ 63 \in vin
    /\ Len(vbytes) > 10 /\ vout[2] = 10

\* C6: the varint cap: a tag varint never consumes more than 10 bytes, and
\* ten leading continuation bytes end the decoding with 10 bytes consumed,
\* the scan going on 10 bytes after the start of the varint.
C6_VarintCap ==
    (pc = "scan" /\ i < Len(blob)) =>
        /\ Tag[2] <= 10
        /\ (/\ i + 10 <= Len(blob)
            /\ \A k \in 1..10 : HasContinuation(blob[i + k]))
              => (Tag[2] = 10 /\ AfterTag = i + 10)

\* C7: repeated fields: every field the scan decoded is retained, so the
\* returned map has as many entries as fields were decoded.
C7_NoOverwrite ==
    pc = "done" => Cardinality(DOMAIN fields) = Len(log)

----------------------------------------------------------------------------
(***************************************************************************)
(* Analysing a text: its score, its analysis and its readable name.        *)
(***************************************************************************)
\* The words the middle of a text is built of: a lowercase word with an
\* underscore, a capitalized word, entity and intent names, a constant-case
\* word and an acronym.
KeyWords ==
    { <<"a", "b", "_">>, <<"F", "o", "o">>, <<"F", "o", "o", "E", "n", "t",
        "i", "t", "y">>, <<"F", "o", "o", "I", "n", "t", "e", "n", "t">>,
        <<"A", "B", "_">>, <<"U", "R", "L">> }

\* What stands in front of the words: nothing, or prose.
KeyLeads == { << >>, <<"G", "o", " ", "t", "o", " ">> }

\* What follows the words: key suffixes, a version triplet with the
\* suffixes of the three versioned rules, and prose.
KeyEndings ==
    { << >>, <<"_", "t", "i", "t", "l", "e">>, <<"_", "n", "a", "m", "e">>,
        <<"_", "I", "N", "T", "E", "N", "T", "_", "T", "I", "T", "L", "E">>,
        <<"_", "1", ".", "0", ".", "0", "_", "t", "i", "t", "l", "e">>,
      <<"_", "1", ".", "0", ".", "0", "_", "e", "n", "t", "i", "t", "y", "_",
          "t", "y", "p", "e", "_", "d", "i", "s", "p", "l", "a", "y", "_",
          "r", "e", "p", "r", "e", "s", "e", "n", "t", "a", "t", "i", "o",
          "n">>,
      <<"_", "1", ".", "0", ".", "0", "_", "i", "n", "t", "e", "n", "t", "_",
          "p", "a", "r", "a", "m", "e", "t", "e", "r", "_", "a", "b", "_",
          "d", "e", "s", "c", "r", "i", "p", "t", "i", "o", "n">>, <<"_",
          "1", ".", "0", ".", "0", "_", "t", "i", "t", "l", "e", " ", "b",
          "y", ".">> }

\* The arguments of the analysis: texts, None and an int.
LocKeys ==
    {PyStr(lead \o Flatten(ws) \o ending) :
        lead \in KeyLeads, ws \in SeqsUpTo(KeyWords, MaxKeyWords),
        ending \in KeyEndings}
    \cup {PyNone, PyInt}

\* The fallback argument: left out, the empty string, a name.
Fallbacks == {PyNone, PyStr(<< >>), PyStr(<<"X", "y">>)}

LInit ==
    /\ locKey \in LocKeys
    /\ pc = "text"
    /\ locFallback = PyNone /\ locScore = Dec(0)
    /\ locParsed = InitialAnalysis(PyNone)
    /\ locReadable = InitialName(PyNone) /\ locCleaned = PyNone
    /\ locTitle = << >>
    /\ WireIdle /\ VarintIdle /\ SanIdle

\* get_localization_key_confidence(text)
Score ==
    /\ pc = "text"
    /\ locScore' = get_localization_key_confidence(locKey)
    /\ pc' = "scored"
    /\ UNCHANGED <<locKey, locFallback, locParsed, locReadable, locCleaned,
                 locTitle>>
    /\ UNCHANGED <<wireVars, varintVars, sanVars>>

\* parse_localization_key(key)
Parse ==
    /\ pc = "scored"
    /\ locParsed' = parse_localization_key(locKey)
    /\ pc' = "parsed"
    /\ UNCHANGED <<locKey, locFallback, locScore, locReadable, locCleaned,
                 locTitle>>
    /\ UNCHANGED <<wireVars, varintVars, sanVars>>

\* generate_readable_name(key, fallback)
Generate ==
    /\ pc = "parsed"
    /\ \E fallback \in Fallbacks :
           /\ locFallback' = fallback
           /\ locReadable' = generate_readable_name(locKey, fallback)
    /\ pc' = "named"
    /\ UNCHANGED <<locKey, locScore, locParsed, locCleaned,
                 locTitle>>
    /\ UNCHANGED <<wireVars, varintVars, sanVars>>

LNext == Score \/ Parse \/ Generate

SpecLoc == LInit /\ [][LNext]_vars

\* C8: for every argument, a text, an empty text or not a text at all: an
\* analysis that is not of a key has no pattern, and an analysis without a
\* pattern has confidence 0.0.
C8_NoKeyNoPattern ==
    pc \in {"parsed", "named"} =>
        /\ ~locParsed.is_key => locParsed.pattern_type = NoPattern
        /\ locParsed.pattern_type = NoPattern =>
               locParsed.confidence = Dec(0)

\* A text that scores above 0.0 was analysed, found not to be a key and
\* given no pattern.
C8_Witness ==
    /\ pc = "parsed" /\ IsStr(locKey) /\ FloatGT(locScore, Dec(0))
    /\ ~locParsed.is_key /\ locParsed.pattern_type = NoPattern

\* 0.0 <= x <= 1.0
InUnitRange(x) == ~FloatGT(Dec(0), x) /\ ~FloatGT(x, Dec(100))

\* C9: the confidence range: the score of a text, the confidence of its
\* analysis and the confidence of its readable name all lie in [0, 1].
C9_ConfidenceInRange ==
    pc = "named" =>
        /\ InUnitRange(locScore)
        /\ InUnitRange(locParsed.confidence)
        /\ InUnitRange(locReadable.confidence)

\* A key whose signals add up to more than 1 (a version triplet, a suffix
\* and four underscores) was scored, analysed and named from the analysis.
C9_Witness ==
    /\ pc = "named" /\ IsStr(locKey)
    /\ ContainsVersion(locKey.text)
    /\ EndsWithSuffix(locKey.text, ScoreSuffixes)
    /\ Count(locKey.text, <<"_">>) >= 4
    /\ locScore = Dec(100)
    /\ locReadable.source = "parsed_key"
    /\ locReadable.confidence = locParsed.confidence

\* The name that leaves the text as it is.
Unchanged ==
    /\ locReadable.value = locKey /\ locReadable.source = "original"
    /\ ~locReadable.is_synthetic

\* The name taken from the fallback.
FromFallback ==
    locReadable.value = locFallback /\ locReadable.source = "fallback"

\* Steps (2) and (3) of the priority chain, for a text classified as a key;
\* rest is what the chain ends with.
KeyChain(rest) ==
    IF /\ Contains(locKey.text, <<" ">>)
       /\ clean_embedded_keys(locKey) # locKey
    THEN /\ locReadable.value = clean_embedded_keys(locKey)
         /\ locReadable.source = "cleaned_embedded"
         /\ locReadable.confidence = Dec(85)
    ELSE IF FloatGT(locParsed.confidence, Dec(60))
    THEN /\ locReadable.value = locParsed.extracted_name
         /\ locReadable.source = "parsed_key"
    ELSE rest

\* C10 as stated: (1) a text not classified as a key is returned unchanged;
\* (2) else a text with a space that clean_embedded_keys changes is returned
\* repaired, with confidence 0.85; (3) else a parsed confidence above 0.6
\* gives the extracted label; (4) else the fallback is returned when one is
\* supplied, and else the text unchanged.
C10_PriorityChain ==
    pc = "named" =>
        IF ~is_localization_key(locKey) THEN Unchanged
        ELSE KeyChain(IF locFallback # PyNone THEN FromFallback
                      ELSE Unchanged)

\* C10 (amended): as above, but an empty text or an argument that is not a
\* text is replaced by the fallback when a non-empty fallback is supplied,
\* and in step (4) only a non-empty fallback is used.
C10_PriorityChainAmended ==
    pc = "named" =>
        IF ~Truthy(locKey) \/ ~IsStr(locKey)
        THEN IF Truthy(locFallback) THEN FromFallback ELSE Unchanged
        ELSE IF ~is_localization_key(locKey) THEN Unchanged
        ELSE KeyChain(IF Truthy(locFallback) THEN FromFallback
                      ELSE Unchanged)

\* A key inside prose that clean_embedded_keys leaves alone and whose
\* analysis does not exceed 0.6 was named by the fallback.
C10_Witness ==
    /\ pc = "named" /\ is_localization_key(locKey)
    /\ Contains(locKey.text, <<" ">>)
    /\ clean_embedded_keys(locKey) = locKey
    /\ ~FloatGT(locParsed.confidence, Dec(60))
    /\ locReadable.source = "fallback"

\* A non-empty text of word characters: what \w+ matches as a whole.
IsWord(t) == t # << >> /\ \A k \in 1..Len(t) : t[k] \in WordChar

\* What \d+\.\d+\.\d+ matches as a whole.
IsTriplet(t) ==
    \E p, q \in Occurrences(t, <<".">>) :
        /\ p < q
        /\ IsDigit(SubSeq(t, 1, p - 1))
        /\ IsDigit(SubSeq(t, p + 1, q - 1))
        /\ IsDigit(SubSeq(t, q + 1, Len(t)))

\* The key is (\w+)_(second)_(\d+\.\d+\.\d+)(rest) for some way of cutting
\* it at two underscores and after the triplet.
Versioned(s, Second(_), Rest(_)) ==
    \E a \in Occurrences(s, <<"_">>) :
        /\ IsWord(SubSeq(s, 1, a - 1))
        /\ \E b \in {u \in Occurrences(s, <<"_">>) : u > a} :
               /\ Second(SubSeq(s, a + 1, b - 1))
               /\ \E c \in (b + 1)..Len(s) :
                      /\ IsTriplet(SubSeq(s, b + 1, c))
                      /\ Rest(SubSeq(s, c + 1, Len(s)))

\* The shape app_NameEntity_N.N.N_entity_type_display_representation, in
\* any case of the letters.
EntityShape(s) ==
    Versioned(s,
        LAMBDA t : IsWord(t) /\ Len(t) >= 7
                     /\ EndsWith(LowerText(t), <<"e", "n", "t", "i", "t",
                         "y">>),
        LAMBDA r : LowerText(r) = <<"_", "e", "n", "t", "i", "t", "y", "_",
            "t", "y", "p", "e", "_", "d", "i", "s", "p", "l", "a", "y", "_",
            "r", "e", "p", "r", "e", "s", "e", "n", "t", "a", "t", "i", "o",
            "n">>)

\* The shape app_NameIntent_N.N.N_intent_parameter_name_description.
ParameterShape(s) ==
    Versioned(s,
        LAMBDA t : IsWord(t) /\ Len(t) >= 7 /\ EndsWith(t, <<"I", "n", "t",
            "e", "n", "t">>),
        LAMBDA r : \E n \in 1..(Len(r) - 30) :
                     /\ IsWord(SubSeq(r, 19, 18 + n))
                     /\ r = <<"_", "i", "n", "t", "e", "n", "t", "_", "p",
                         "a", "r", "a", "m", "e", "t", "e", "r",
                         "_">> \o SubSeq(r, 19, 18 + n)
                              \o <<"_", "d", "e", "s", "c", "r", "i", "p",
                                  "t", "i", "o", "n">>)

\* The shape prefix_Name_N.N.N_suffix with a capitalized name.
VersionShape(s) ==
    Versioned(s,
        LAMBDA t : IsWord(t) /\ Len(t) >= 2 /\ t[1] \in Upper,
        LAMBDA r : Len(r) >= 2 /\ r[1] = "_")

\* The pattern of the first rule, in the order of the rules, whose shape
\* the key has.
FirstRule(s) ==
    IF EntityShape(s) THEN "entity_type"
    ELSE IF ParameterShape(s) THEN "parameter_description"
    ELSE IF VersionShape(s) THEN "version_based"
    ELSE IF IsUpper(s) /\ Contains(s, <<"_">>) THEN "constant_case"
    ELSE IF Contains(s, <<"_">>) THEN "generic_underscore"
    ELSE "unknown"

\* C11: pattern priority: the analysis of a key reports the pattern of the
\* first rule that matches, in the order entity_type,
\* parameter_description, version_based, constant_case, generic_underscore.
C11_PatternPriority ==
    (pc \in {"parsed", "named"} /\ locParsed.is_key) =>
        locParsed.pattern_type = FirstRule(locKey.text)

\* A key that has the entity_type shape and the version_based shape was
\* analysed as entity_type.
C11_Witness ==
    /\ pc = "parsed" /\ locParsed.is_key
    /\ EntityShape(locKey.text) /\ VersionShape(locKey.text)
    /\ locParsed.pattern_type = "entity_type"

\* A text of letters, digits and dots only.
IsPlain(s) == \A k \in 1..Len(s) : s[k] \in Alnum \cup {"."}

\* s without a trailing run of two or more digits.
WithoutDigitRun(s) ==
    IF TrailingRun(s, Digit) >= 2 THEN Chop(s, TrailingRun(s, Digit)) ELSE s

----------------------------------------------------------------------------
(***************************************************************************)
(* Sanitizing UUIDs, bare and wrapped in binary artifacts.                 *)
(***************************************************************************)
\* The two hexadecimal digits a UUID is made of by repetition.
UuidUnits == { <<"1", "a">>, <<"A", "1">>, <<"b", "2">>, <<"0", "0">> }

RECURSIVE Repeat(_, _)
Repeat(u, n) == IF n = 0 THEN << >> ELSE u \o Repeat(u, n - 1)

\* 8-4-4-4-12 hexadecimal digits.
Uuid(u) ==
    Repeat(u, 4) \o <<"-">> \o Repeat(u, 2) \o <<"-">> \o Repeat(u, 2)
        \o <<"-">> \o Repeat(u, 2) \o <<"-">> \o Repeat(u, 6)

\* What follows the quote behind a UUID: digits, or plus signs.
UuidTails ==
    SeqsUpTo({"2", "3"}, MaxTailLen) \cup SeqsUpTo({"+"}, MaxTailLen)

\* What stands behind a UUID: nothing, or a quote and a tail.
UuidWrappers ==
    {<< >>} \cup {<<q>> \o t : q \in Quote, t \in UuidTails}

UuidInputs ==
    {lead \o Uuid(u) \o w :
        lead \in {<< >>, <<"$">>}, u \in UuidUnits, w \in UuidWrappers}

UInit ==
    /\ rawText \in UuidInputs
    /\ pc = "raw" /\ clean = None /\ again = None
    /\ WireIdle /\ VarintIdle /\ LocIdle

SpecUuid == UInit /\ [][SNext]_vars

\* The 36 characters of the UUID in a text of UuidInputs.
BareUuid(s) ==
    IF s[1] = "$" THEN SubSeq(s, 2, 37) ELSE SubSeq(s, 1, 36)

----------------------------------------------------------------------------
(***************************************************************************)
(* Sanitizing texts of quotes, digits, markers and binary-plist headers.   *)
(***************************************************************************)
MaxParts == 5

RejectPieces == { <<"a">>, <<"1">>, <<"\"">>, <<"*">>, <<"!">>, Bplist }

RejectInputs == {Flatten(ps) : ps \in SeqsUpTo(RejectPieces, MaxParts)}

RInit ==
    /\ rawText \in RejectInputs
    /\ pc = "raw" /\ clean = None /\ again = None
    /\ WireIdle /\ VarintIdle /\ LocIdle

SpecReject == RInit /\ [][SNext]_vars

\* s ends with a fragment wrapped in quotes: a quote, characters that are
\* not quotes, and a quote that ends s.
EndsQuoteWrapped(s) ==
    \E k \in 1..(Len(s) - 1) :
        /\ s[k] \in Quote /\ s[Len(s)] \in Quote
        /\ \A j \in (k + 1)..(Len(s) - 1) : s[j] \notin Quote

\* The shapes of a string that is rejected for its structure.
Structural(s) ==
    \/ s = << >>
    \/ Len(s) >= 2 /\ s[Len(s)] \in Quote
         /\ \A k \in 1..(Len(s) - 1) : s[k] \in Digit
    \/ s # << >> /\ s[1] \in Quote
    \/ EndsQuoteWrapped(s)
    \/ s # << >> /\ \A k \in 1..Len(s) : s[k] \notin WordChar
    \/ Len(s) = 3 /\ s[2] = "*"
    \/ StartsWith(s, Bplist) /\ Len(s) > Len(Bplist)
         /\ \A k \in (Len(Bplist) + 1)..Len(s) : s[k] \in Digit

\* C14: structural rejection: a string that, after the stripping rules, is
\* empty, is digits and a quote, starts with a quote, ends with a
\* quote-wrapped fragment, has no word character, is a character, '*' and a
\* character, or is 'bplist' and digits, is rejected.
C14_StructuralRejection ==
    (pc = "clean" /\ Structural(Stripped(rawText))) => ~clean.ok

----------------------------------------------------------------------------
(***************************************************************************)
(* The shape of the record decode_protobuf_blob returns.                   *)
(***************************************************************************)
\* C15: result shape: for every blob, the empty blob included, the record
\* returned contains a fields mapping and a strings list.
C15_ResultShape ==
    pc = "done" => {"fields", "strings"} \subseteq resultKeys

\* C15, amended: the record returned for a blob that is not empty contains
\* a fields mapping and a strings list; the record returned for the empty
\* blob has no key at all.
C15_ResultShapeAmended ==
    pc = "done" =>
        IF blob = << >> THEN resultKeys = {}
        ELSE {"fields", "strings"} \subseteq resultKeys

\* A scan has ended that recorded a field and extracted a string.
C15_Witness ==
    /\ pc = "done" /\ blob # << >>
    /\ DOMAIN fields # {} /\ strings # << >>
    /\ {"fields", "strings"} \subseteq resultKeys

----------------------------------------------------------------------------
(***************************************************************************)
(* extract_strings_from_blob, scan by scan.                                *)
(***************************************************************************)
\* A blob handed to extract_strings_from_blob is a concatenation of at most
\* MaxBlobParts chunks of ExtractChunks.
MaxBlobParts == 5

\* "abc", '(', a zero byte, 0x0a (a tag of wire type 2), 0x03 (a length),
\* '*' (a delimiter, and a tag of wire type 2) and a continuation byte.
ExtractChunks ==
    { <<97, 98, 99>>, <<40>>, <<0>>, <<10>>, <<3>>, <<42>>, <<128>> }

ExtractInputs == {Flatten(cs) : cs \in SeqsUpTo(ExtractChunks, MaxBlobParts)}

XInit ==
    /\ blob \in ExtractInputs
    /\ pc = "blob" /\ i = 0 /\ fields = NoFields /\ log = << >>
    /\ stop = "none" /\ ResIdle
    /\ VarintIdle /\ SanIdle /\ LocIdle

\* Lines 149-150: if not blob: return []
ReturnEmpty ==
    /\ pc = "blob" /\ blob = << >>
    /\ pc' = "strings"
    /\ UNCHANGED <<wireVars, varintVars, sanVars, locVars>>

\* Lines 156-159: the printable ASCII runs.
ScanAscii ==
    /\ pc = "blob" /\ blob # << >>
    /\ rawStrings' = AsciiMatches(blob, 1, minLength)
    /\ pc' = "ascii"
    /\ UNCHANGED <<blob, i, fields, log, stop, resultKeys, strings, minLength,
                   varintVars, sanVars, locVars>>

\* Lines 162-184: the length-prefixed strings.
ScanPrefixed ==
    /\ pc = "ascii"
    /\ rawStrings' = PrefixedFrom(blob, 0, rawStrings, minLength)
    /\ pc' = "raw"
    /\ UNCHANGED <<blob, i, fields, log, stop, resultKeys, strings, minLength,
                   varintVars, sanVars, locVars>>

\* Lines 187-192: sanitizing what was found.
SanitizeFound ==
    /\ pc = "raw"
    /\ strings' = SanitizeAll(rawStrings, 1, << >>)
    /\ pc' = "strings"
    /\ UNCHANGED <<blob, i, fields, log, stop, resultKeys, rawStrings,
                   minLength,
                   varintVars, sanVars, locVars>>

XNext == ReturnEmpty \/ ScanAscii \/ ScanPrefixed \/ SanitizeFound

SpecExtract == XInit /\ [][XNext]_vars

\* t is the text of a maximal run of printable bytes of the blob.
IsAsciiRun(t) ==
    \E a \in 1..Len(blob) : \E b \in a..Len(blob) :
        /\ IsPrintable(SubSeq(blob, a, b)) /\ t = Text(SubSeq(blob, a, b))
        /\ a = 1 \/ ~IsPrintable(<<blob[a - 1]>>)
        /\ b = Len(blob) \/ ~IsPrintable(<<blob[b + 1]>>)

\* t is the text behind a byte of wire type 2 and a length varint.
IsPrefixed(t) ==
    \E k \in 1..Len(blob) :
        /\ blob[k] % 8 = 2
        /\ LET d     == decode_varint(SliceFrom(blob, k))
               start == k + d[2]
               end   == start + ToNat(d[1])
           IN  /\ end <= Len(blob)
               /\ IsPrintable(Utf8Ignore(Slice(blob, start, end)))
               /\ t = Text(Utf8Ignore(Slice(blob, start, end)))

\* The candidates that sanitize to the k-th string of the list.
SourcesOf(k) ==
    {j \in 1..Len(rawStrings) :
        sanitize_extracted_string(rawStrings[j]) = Some(strings[k])}

\* C16: the list extract_strings_from_blob returns holds no string twice;
\* each element is the sanitize result of a candidate found in the blob, a
\* printable run or a length-prefixed text, and has 3 characters or more;
\* the elements stand in the order in which their first candidates were
\* found, and no accepted candidate is left out.
C16_ExtractedStrings ==
    pc = "strings" =>
        /\ \A k, m \in 1..Len(strings) : strings[k] = strings[m] => k = m
        /\ \A j \in 1..Len(rawStrings) :
               /\ IsAsciiRun(rawStrings[j]) \/ IsPrefixed(rawStrings[j])
               /\ LET cleaned == sanitize_extracted_string(rawStrings[j])
                  IN  cleaned.ok => InList(cleaned.text, strings)
        /\ \A k \in 1..Len(strings) :
               /\ SourcesOf(k) # {}
               /\ Len(strings[k]) >= 3
        /\ \A k, m \in 1..Len(strings) :
               k < m => Min(SourcesOf(k)) < Min(SourcesOf(m))

\* Two strings were returned for four candidates, one of them found only
\* behind a length prefix: a candidate was rejected or sanitized to a
\* string already in the list.
C16_Witness ==
    /\ pc = "strings" /\ Len(strings) = 2 /\ Len(rawStrings) >= 3
    /\ \E j \in 1..Len(rawStrings) : ~IsAsciiRun(rawStrings[j])
    /\ \E j \in 1..Len(rawStrings) :
           rawStrings[j] # strings[1] /\ rawStrings[j] # strings[2]

----------------------------------------------------------------------------
(***************************************************************************)
(* clean_embedded_keys on prose that holds keys.                           *)
(***************************************************************************)
\* A text handed to clean_embedded_keys holds at most MaxEmbedded words of
\* EmbeddedWords.
MaxEmbedded == 2

\* Keys with a version, all-caps runs, and a plain word.
EmbeddedWords ==
    { <<"a", "b", "_", "F", "o", "o", "_", "1", ".", "0", ".", "0", "_",
        "x">>,
      <<"a", "_", "b", "_", "1", ".", "0", ".", "0", "_", "c">>,
      <<"A", "_", "B", "_", "1", ".", "0", ".", "0", "_", "C">>,
      <<"A", "B", "_", "A", "B", "_", "A", "B", "_", "I", "N", "T", "E", "N",
          "T", "_", "T", "I", "T", "L", "E">>,
      <<"A", "B", "C", "D", "E", "F", "G", "H", "I", "J", "K", "_", "T", "I",
          "T", "L", "E">>,
      <<"b", "y">> }

ProseInputs ==
    {PyStr(lead \o Join(ws, <<" ">>) \o trail) :
        lead \in {<< >>, <<"G", "o", " ", "t", "o", " ">>},
        ws \in SeqsUpTo(EmbeddedWords, MaxEmbedded),
        trail \in {<< >>, <<".">>}}

PInit ==
    /\ locKey \in ProseInputs
    /\ pc = "prose"
    /\ locFallback = PyNone /\ locScore = Dec(0)
    /\ locParsed = InitialAnalysis(PyNone)
    /\ locReadable = InitialName(PyNone) /\ locCleaned = PyNone
    /\ locTitle = << >>
    /\ WireIdle /\ VarintIdle /\ SanIdle

\* clean_embedded_keys(text)
CleanEmbedded ==
    /\ pc = "prose"
    /\ locCleaned' = clean_embedded_keys(locKey)
    /\ pc' = "cleaned"
    /\ UNCHANGED <<locKey, locFallback, locScore, locParsed, locReadable,
                 locTitle>>
    /\ UNCHANGED <<wireVars, varintVars, sanVars>>

PNext == CleanEmbedded

SpecClean == PInit /\ [][PNext]_vars

\* The text s from position k on, cut into matched spans (a key with a
\* version, or an all-caps run) and the characters outside them.
RECURSIVE Pieces(_, _)
Pieces(s, k) ==
    IF k > Len(s) THEN << >>
    ELSE IF s[k] \notin WordChar
    THEN <<[kind |-> "outside", text |-> <<s[k]>>]>> \o Pieces(s, k + 1)
    ELSE IF EmbeddedKeyEnd(s, k) # 0
    THEN <<[kind |-> "key", text |-> SubSeq(s, k, EmbeddedKeyEnd(s, k))]>>
             \o Pieces(s, EmbeddedKeyEnd(s, k) + 1)
    ELSE <<[kind |-> IF IsConstantRun(SubSeq(s, k, RunEnd(s, k)))
                       THEN "constant" ELSE "outside",
            text |-> SubSeq(s, k, RunEnd(s, k))]>>
             \o Pieces(s, RunEnd(s, k) + 1)

\* The lower-cased label derived from a matched span.
LowerLabel(piece) ==
    IF piece.kind = "key"
    THEN LET parsed == parse_localization_key(PyStr(piece.text))
         IN  LowerText(parsed.extracted_name.text)
    ELSE LowerText(constant_to_title(piece.text))

\* x > 0.7
ExceedsSeventy(x) == FloatGT(x, Dec(70))

KeyConfidence(piece) == get_localization_key_confidence(PyStr(piece.text))

\* The matched spans of a sequence of pieces.
Spans(ps) == {p \in 1..Len(ps) : ps[p].kind # "outside"}

\* The pieces written one after the other, the spans of R replaced by their
\* labels.
Written(ps, R) ==
    Flatten([p \in 1..Len(ps) |->
                IF p \in R THEN LowerLabel(ps[p]) ELSE ps[p].text])

\* C17: clean_embedded_keys changes matched spans only: the output is the
\* input with some spans replaced by their lower-cased labels, and a span
\* is replaced only if its key confidence exceeds 0.7.
C17_EmbeddedKeyFrame ==
    pc = "cleaned" =>
        LET ps == Pieces(locKey.text, 1)
        IN  \E R \in SUBSET Spans(ps) :
                /\ locCleaned = PyStr(Written(ps, R))
                /\ \A p \in R : ExceedsSeventy(KeyConfidence(ps[p]))

\* C17, amended: the output is the input with these spans replaced by their
\* lower-cased labels: a key with a version whose analysis says it is a key
\* with a confidence above 0.7, and an all-caps run that holds an underscore
\* and has a key confidence above 0.7.  All other spans, and all characters
\* outside the spans, are left as they are.
C17_EmbeddedKeyFrameAmended ==
    pc = "cleaned" =>
        LET ps == Pieces(locKey.text, 1)
            R  == {p \in Spans(ps) :
                     IF ps[p].kind = "key"
                     THEN LET parsed ==
                                  parse_localization_key(PyStr(ps[p].text))
                          IN  parsed.is_key
                                  /\ ExceedsSeventy(parsed.confidence)
                     ELSE Contains(ps[p].text, <<"_">>)
                              /\ ExceedsSeventy(KeyConfidence(ps[p]))}
        IN  locCleaned = PyStr(Written(ps, R))

\* A text with two spans was repaired: one span was replaced, the other and
\* the words around them were left as they were.
C17_Witness ==
    /\ pc = "cleaned" /\ locCleaned # locKey
    /\ LET ps == Pieces(locKey.text, 1)
       IN  /\ Cardinality(Spans(ps)) = 2
           /\ \E p \in Spans(ps) :
                  /\ locCleaned = PyStr(Written(ps, {p}))
                  /\ Written(ps, {p}) # Written(ps, Spans(ps))
           /\ ps[1].text = <<"G", "o">>

----------------------------------------------------------------------------
(***************************************************************************)
(* Length-delimited fields with an implausible length.                     *)
(***************************************************************************)
\* The length varint behind the tag at the current offset, and the offset
\* of the payload.
LengthAtTag == ToNat(decode_varint(SliceFrom(blob, AfterTag))[1])

PayloadAt == AfterTag + decode_varint(SliceFrom(blob, AfterTag))[2]

\* C18: implausible length stop: a length-delimited field whose length is
\* greater than 1000, or whose payload would end past the end of the blob,
\* ends the scan: nothing is recorded for it or for the bytes behind it, and
\* the fields decoded before it are kept.
C18_ImplausibleLengthStop ==
    [][(/\ pc = "scan" /\ i < Len(blob) /\ WireType = 2
        /\ LengthAtTag > 1000 \/ PayloadAt + LengthAtTag > Len(blob))
          => (pc' = "done" /\ fields' = fields /\ log' = log)]_vars

----------------------------------------------------------------------------
----------------------------------------------------------------------------
(***************************************************************************)
(* Sanitizing long texts: over-stripping and splitting.                    *)
(***************************************************************************)
\* A run of six artifact characters, two words, a delimiter, a quote and a
\* digit.
OrderPieces ==
    { <<"(", "(", "(", "(", "(", "(">>, <<"a", "b", "c">>, <<"a", "b", "c",
        "d", "e", "f", "g">>, <<"*">>, <<"\"">>, <<"1">> }

OrderInputs == {Flatten(ps) : ps \in SeqsUpTo(OrderPieces, MaxPieces)}

OInit ==
    /\ rawText \in OrderInputs
    /\ pc = "raw" /\ clean = None /\ again = None
    /\ WireIdle /\ VarintIdle /\ LocIdle

SpecOrder == OInit /\ [][SNext]_vars

----------------------------------------------------------------------------
(***************************************************************************)
(* Sanitizing concatenated identifiers and prose with delimiters.          *)
(***************************************************************************)
\* A word, a price as prose writes it, two delimiters, a space and a
\* capital.
SplitPieces ==
    { <<"a", "b", "c">>, <<" ", "$", "3">>, <<"$">>, <<"*">>, <<" ">>,
        <<"A">> }

SplitInputs == {Flatten(ps) : ps \in SeqsUpTo(SplitPieces, MaxParts)}

DInit ==
    /\ rawText \in SplitInputs
    /\ pc = "raw" /\ clean = None /\ again = None
    /\ WireIdle /\ VarintIdle /\ LocIdle

SpecSplit == DInit /\ [][SNext]_vars

\* The positions of the delimiters of s that have a character directly on
\* either side, neither of them whitespace.
Adjacent(s) ==
    {q \in 2..(Len(s) - 1) :
        \E n \in 1..Len(Delimiters) :
            /\ OccursAt(s, Delimiters[n], q)
            /\ q + Len(Delimiters[n]) <= Len(s)
            /\ s[q - 1] \notin Whitespace
            /\ s[q + Len(Delimiters[n])] \notin Whitespace}

\* C21: concatenation splitting: an accepted text is cut only at a
\* delimiter that has text, and no whitespace, directly on both sides, and
\* then it is the text in front of the first such delimiter; a delimiter
\* next to whitespace is never where a text is cut.
C21_SplitAtAdjacentDelimiter ==
    LET t == Stripped(rawText)
    IN  (pc = "clean" /\ clean.ok /\ clean.text # t) =>
            /\ Adjacent(t) # {}
            /\ clean.text = Strip(SubSeq(t, 1, Min(Adjacent(t)) - 1))

----------------------------------------------------------------------------
(***************************************************************************)
(* The confidence score as a sum of signals.                               *)
(***************************************************************************)
\* The hundredths a signal adds to the sum.
Signal(fires, a) == IF fires THEN a ELSE 0

\* The sum of the seven signals of a text, in hundredths, with the known
\* key suffixes those of is_localization_key.
SignalSum(s) ==
    Signal(ContainsVersion(s), 60)
    + Signal(EndsWithSuffix(s, KeySuffixes), 40)
    + Signal(Count(s, <<"_">>) >= 4, 20)
    + Signal(Len(s) > 20 /\ ~Contains(s, <<" ">>), 15)
    + Signal(IsUpper(s) /\ Contains(s, <<"_">>), 30)
    + Signal(Count(s, <<" ">>) > Count(s, <<"_">>), -40)
    + Signal(LooksTitleCase(s), -30)

\* C22: confidence scoring: the score of a text is the sum, clamped to
\* [0, 1], of +0.6 for a version triplet, +0.4 for a known key suffix
\* (_name among them), +0.2 for four or more underscores, +0.15 for more
\* than 20 characters without a space, +0.3 for all-uppercase with an
\* underscore, -0.4 for more spaces than underscores and -0.3 for a
\* capital followed by lowercase.
C22_ScoreIsClampedSum ==
    (pc # "text" /\ IsStr(locKey) /\ ~LocIdle) =>
        LET sum == SignalSum(locKey.text)
        IN  locScore.h = (IF sum < 0 THEN 0 ELSE IF sum > 100 THEN 100 ELSE sum)

----------------------------------------------------------------------------
(***************************************************************************)
(* Titles of camel-case names and of constant-case keys.                   *)
(***************************************************************************)
MaxTitleParts == 3

\* A lowercase, a capitalized and an uppercase word, acronyms in three
\* spellings, and what delimits and ends a constant-case key.
TitlePieces ==
    { <<"u", "r", "l">>, <<"U", "R", "L">>, <<"F", "o", "o">>, <<"i", "o",
        "s">>, <<"I", "O", "S">>, <<"W", "I", "F", "I">>, <<"_">>, <<"_",
        "T", "I", "T", "L", "E">> }

TitleInputs == {Flatten(ps) : ps \in SeqsUpTo(TitlePieces, MaxTitleParts)}

TInit ==
    /\ locKey \in TitleInputs
    /\ pc = "name"
    /\ locFallback = PyNone /\ locScore = Dec(0)
    /\ locParsed = InitialAnalysis(PyNone)
    /\ locReadable = InitialName(PyNone) /\ locCleaned = PyNone
    /\ locTitle = << >>
    /\ WireIdle /\ VarintIdle /\ SanIdle

\* camel_case_to_title(text)
CamelTitle ==
    /\ pc = "name"
    /\ locTitle' = camel_case_to_title(locKey)
    /\ pc' = "camel"
    /\ UNCHANGED <<locKey, locFallback, locScore, locParsed, locReadable,
                   locCleaned>>
    /\ UNCHANGED <<wireVars, varintVars, sanVars>>

\* constant_to_title(text)
ConstantTitle ==
    /\ pc = "name"
    /\ locTitle' = constant_to_title(locKey)
    /\ pc' = "constant"
    /\ UNCHANGED <<locKey, locFallback, locScore, locParsed, locReadable,
                   locCleaned>>
    /\ UNCHANGED <<wireVars, varintVars, sanVars>>

TNext == CamelTitle \/ ConstantTitle

SpecTitle == TInit /\ [][TNext]_vars

\* The word is one of the acronyms, whatever the case it is written in.
IsAcronym(word) ==
    \E acronym \in KNOWN_ACRONYMS : UpperText(acronym) = UpperText(word)

\* An acronym in full uppercase, any other word with a leading capital.
Rendered(word) ==
    IF IsAcronym(word) THEN UpperText(word) ELSE Capitalize(word)

RenderedAll(words) ==
    Join([k \in 1..Len(words) |-> Rendered(words[k])], <<" ">>)

\* The words of a camel-case name: it breaks in front of a capital that
\* follows a lowercase letter and in front of the last capital of a run
\* that a lowercase letter follows.
CamelWords(s) ==
    LET breaks == {k \in 2..Len(s) :
                      \/ s[k - 1] \in Lower /\ s[k] \in Upper
                      \/ /\ s[k - 1] \in Upper /\ s[k] \in Upper
                         /\ At(s, k + 1) \in Lower}
    IN  SplitWords(SpaceBefore(s, breaks, 1))

\* C23: acronym preservation: a word of a camel-case name, and an
\* underscore-delimited word of a constant-case key, that is a member of
\* the acronym set (iOS, macOS and WiFi among them) is rendered in full
\* uppercase; every other word has only its first letter uppercase.
C23_AcronymPreservation ==
    /\ (pc = "camel" /\ locKey # << >>
            /\ \A k \in 1..Len(locKey) : locKey[k] \in Upper \cup Lower) =>
           locTitle = RenderedAll(CamelWords(locKey))
    /\ (pc = "constant" /\ IsUpper(locKey)) =>
           locTitle = RenderedAll(SplitOn(CutSuffix(locKey, 1), "_"))

----------------------------------------------------------------------------
(***************************************************************************)
(* extract_strings_from_blob with a minimum length of the caller.          *)
(***************************************************************************)
MaxScanParts == 4
MaxMinLength == 4

\* Text, a space, a byte that is not printable, a tag of wire type 2
\* (0x0a), a length of 4, and text with a stray byte of 0x80 in it.
ScanChunks ==
    { <<97, 98, 99>>, <<32>>, <<0>>, <<10>>, <<4>>, <<97, 98, 128, 99>> }

ScanInputs == {Flatten(cs) : cs \in SeqsUpTo(ScanChunks, MaxScanParts)}

MInit ==
    /\ blob \in ScanInputs
    /\ minLength \in DefaultMinLength..MaxMinLength
    /\ pc = "blob" /\ i = 0 /\ fields = NoFields /\ log = << >>
    /\ stop = "none"
    /\ resultKeys = {} /\ rawStrings = << >> /\ strings = << >>
    /\ VarintIdle /\ SanIdle /\ LocIdle

SpecScan == MInit /\ [][XNext]_vars

\* t is the text of consecutive bytes of the blob, all of them printable.
IsRunOfBlob(t) ==
    \E a \in 1..Len(blob) : \E b \in a..Len(blob) :
        IsPrintable(SubSeq(blob, a, b)) /\ t = Text(SubSeq(blob, a, b))

\* C24: raw scan minimum length: for every blob and every min_length, each
\* string extract_strings_from_blob returns is a run of printable ASCII
\* bytes of the blob and has min_length characters or more.
C24_RunsOfMinimumLength ==
    pc = "strings" =>
        \A k \in 1..Len(strings) :
            IsRunOfBlob(strings[k]) /\ Len(strings[k]) >= minLength

----------------------------------------------------------------------------
(***************************************************************************)
(* What is kept of a length-delimited payload.                             *)
(***************************************************************************)
\* The payload of the length-delimited field at the current offset.
PayloadHere == Slice(blob, PayloadAt, PayloadAt + LengthAtTag)

\* A length-delimited field stands at the current offset and its payload
\* lies within the blob.
AcceptsPayload ==
    /\ pc = "scan" /\ i < Len(blob) /\ WireType = 2
    /\ PayloadAt + LengthAtTag <= Len(blob)

\* The payload is printable text.
PayloadIsText ==
    /\ \A k \in 1..Len(PayloadHere) : PayloadHere[k] \in 32..126

\* C25: length-delimited payload retention: the raw payload of every
\* accepted length-delimited field is recorded in hex form whether or not it
\* is printable text, and a printable payload is recorded as text as well.
C25_PayloadRetention ==
    [][AcceptsPayload =>
          LET hex  == FieldKey(FieldNumber, "bytes")
              text == FieldKey(FieldNumber, "string")
          IN  /\ hex \in DOMAIN fields'
              /\ fields'[hex] = RawValue("hex", PayloadHere)
              /\ PayloadIsText =>
                     /\ text \in DOMAIN fields'
                     /\ fields'[text] = RawValue("str", PayloadHere)]_vars

\* C25, amended: an accepted length-delimited field adds one entry and
\* leaves every other entry as it was: the text of a payload that is
\* printable text, under the string key and with nothing under the bytes
\* key, and the hex form of any other payload, under the bytes key.
C25_PayloadRetentionAmended ==
    [][AcceptsPayload =>
          LET hex  == FieldKey(FieldNumber, "bytes")
              text == FieldKey(FieldNumber, "string")
              key  == IF PayloadIsText THEN text ELSE hex
              kept == DOMAIN fields \ {key}
          IN  /\ DOMAIN fields' = DOMAIN fields \cup {key}
              /\ \A k \in kept : fields'[k] = fields[k]
              /\ fields'[key] =
                     RawValue(IF PayloadIsText THEN "str" ELSE "hex",
                              PayloadHere)
              /\ Len(log') = Len(log) + 1]_vars

\* A scan has recorded the text of a payload, and nothing in hex for the
\* field.
C25_Witness ==
    /\ pc = "done"
    /\ \E k \in 1..Len(log) :
           /\ log[k].key.kind = "string" /\ log[k].value.raw # << >>
           /\ fields[log[k].key] = log[k].value
           /\ FieldKey(log[k].key.num, "bytes") \notin DOMAIN fields

----------------------------------------------------------------------------
(***************************************************************************)
(* decode_protobuf_blob step by step: the loop of the length-prefix scan   *)
(* of extract_strings_from_blob, then the loop of the wire scan.           *)
(***************************************************************************)
MaxLoopParts == 3

\* A varint field (tag 0x08, value 5), a tag of wire type 2 (0x0a), a
\* length of 3 (as a tag: wire type 3), text (as tags, 'a' is of wire type
\* 1 and 'd' of wire type 4), a tag of wire type 5 and a continuation byte.
LoopChunks ==
    { <<8, 5>>, <<10>>, <<3>>, <<97, 98, 99, 100>>, <<5>>, <<128>> }

LoopInputs == {Flatten(cs) : cs \in SeqsUpTo(LoopChunks, MaxLoopParts)}

WInit ==
    /\ blob \in LoopInputs
    /\ pc = "enter" /\ i = 0 /\ fields = NoFields /\ log = << >>
    /\ stop = "none" /\ ResIdle
    /\ VarintIdle /\ SanIdle /\ LocIdle

\* Lines 232-233 and 149-163: an empty blob returns at once; otherwise the
\* printable runs are collected and the length-prefix scan starts at 0.
EnterScans ==
    /\ pc = "enter"
    /\ IF blob = << >>
         THEN /\ pc' = "done" /\ stop' = "empty"
              /\ UNCHANGED rawStrings
         ELSE /\ pc' = "prefix" /\ stop' = stop
              /\ rawStrings' = AsciiMatches(blob, 1, minLength)
    /\ UNCHANGED <<blob, i, fields, log, resultKeys, strings, minLength,
                   varintVars, sanVars, locVars>>

\* Lines 164-181: an iteration at a byte of wire type 2: the offset steps
\* over the byte, the text behind a plausible length is kept, and the
\* offset steps once more.
PrefixTagged ==
    /\ pc = "prefix" /\ i < Len(blob) - 2 /\ blob[i + 1] % 8 = 2
    /\ LET d      == decode_varint(SliceFrom(blob, i + 1))
           length == ToNat(d[1])
           start  == i + 1 + d[2]
           end    == start + length
           s      == Utf8Ignore(Slice(blob, start, end))
           found  == /\ length > 0 /\ length < 1000
                     /\ end <= Len(blob)
                     /\ IsPrintable(s) /\ Len(s) >= minLength
                     /\ ~InList(Text(s), rawStrings)
       IN  rawStrings' = IF found THEN Append(rawStrings, Text(s))
                         ELSE rawStrings
    /\ i' = i + 2
    /\ UNCHANGED <<blob, pc, fields, log, stop, resultKeys, strings,
                   minLength, varintVars, sanVars, locVars>>

\* An iteration that leaves the offset where it is.
PrefixStays ==
    /\ pc = "prefix" /\ i < Len(blob) - 2 /\ blob[i + 1] % 8 # 2
    /\ UNCHANGED vars

\* Lines 164-166 and 181: an iteration at any other byte.
PrefixOther ==
    /\ pc = "prefix" /\ i < Len(blob) - 2 /\ blob[i + 1] % 8 # 2
    /\ i' = i + 1
    /\ UNCHANGED <<blob, pc, fields, log, stop, resVars, varintVars, sanVars,
                   locVars>>

\* Lines 164 and 241-243: the length-prefix scan ends and the wire scan
\* starts at offset 0.  The statements in between (lines 187-192, the
\* sanitizing that SanitizeFound models, and 235-239) read and write no
\* offset; what they make of raw_strings is left out here.
PrefixExit ==
    /\ pc = "prefix" /\ ~(i < Len(blob) - 2)
    /\ resultKeys' = ResultKeys
    /\ i' = 0 /\ pc' = "scan"
    /\ UNCHANGED <<blob, fields, log, stop, rawStrings, strings, minLength,
                   varintVars, sanVars, locVars>>

WNext ==
    \/ EnterScans \/ PrefixTagged \/ PrefixOther \/ PrefixExit
    \/ LoopExit
    \/ FieldVarint
    \/ Field64 \/ Stop64
    \/ FieldBytes \/ StopBytes
    \/ Field32 \/ Stop32
    \/ StopUnknown

\* The interpreter runs the statements of the function one after the
\* other: a step that can be taken is taken.
SpecLoops == WInit /\ [][WNext]_vars /\ WF_vars(WNext)

\* C26: termination of the scans: for every blob the length-prefix scan and
\* the wire scan come to an end; an iteration of either loop that does not
\* end the scan leaves the offset greater than it was, and the offset is
\* never greater than the length of the blob.
C26_ScansTerminate ==
    /\ <>(pc = "done")
    /\ [](i <= Len(blob))
    /\ [][(pc \in {"prefix", "scan"} /\ pc' = pc) => i' > i]_vars

\* Both loops have run over a blob and have ended: the length-prefix scan
\* found a text that is no maximal printable run, and the wire scan
\* recorded a field.
C26_Witness ==
    /\ pc = "done" /\ i <= Len(blob)
    /\ DOMAIN fields # {}
    /\ \E k \in 1..Len(rawStrings) : ~IsAsciiRun(rawStrings[k])

----------------------------------------------------------------------------
(***************************************************************************)
(* The pattern and the confidence of a classified key.                     *)
(***************************************************************************)
ConcretePatterns ==
    {"entity_type", "parameter_description", "version_based",
     "constant_case", "generic_underscore"}

\* C27: every classified key gets a concrete pattern: the analysis of a
\* text that is_localization_key accepts names one of the five patterns,
\* never 'unknown', and has a confidence of 0.6 or more.
C27_ConcretePattern ==
    (pc \in {"parsed", "named"} /\ is_localization_key(locKey)) =>
        /\ locParsed.is_key
        /\ locParsed.pattern_type \in ConcretePatterns
        /\ ~FloatGT(Dec(60), locParsed.confidence)

\* A key whose score is below 0.6 was analysed: it is a generic key, and
\* its confidence was raised to 0.6.
C27_Witness ==
    /\ pc = "parsed" /\ is_localization_key(locKey)
    /\ FloatGT(Dec(60), locScore)
    /\ locParsed.pattern_type = "generic_underscore"
    /\ locParsed.confidence = Dec(60)

----------------------------------------------------------------------------
(***************************************************************************)
(* The metadata of a readable name.                                        *)
(***************************************************************************)
\* C28: ReadableNameResult consistency: a name is synthetic exactly when
\* its source is parsed_key or cleaned_embedded, and exactly when it has an
\* original key, which then is the input; a name whose source is original
\* or fallback is not synthetic, has no original key and has confidence 1.0.
C28_NameConsistency ==
    pc = "named" =>
        LET r         == locReadable
            generated == r.source \in {"parsed_key", "cleaned_embedded"}
        IN  /\ r.source \in {"parsed_key", "cleaned_embedded", "original",
                             "fallback"}
            /\ r.is_synthetic <=> generated
            /\ r.is_synthetic <=> r.original_key # PyNone
            /\ r.is_synthetic => r.original_key = locKey
            /\ ~generated =>
                   /\ ~r.is_synthetic /\ r.original_key = PyNone
                   /\ r.confidence = Dec(100)

\* A classified key whose analysis is not trusted was given the fallback as
\* its name.
C28_Witness ==
    /\ pc = "named" /\ is_localization_key(locKey)
    /\ locReadable.source = "fallback" /\ locReadable.value = locFallback
    /\ ~locReadable.is_synthetic

----------------------------------------------------------------------------
(***************************************************************************)
(* The last character of a sanitized text.                                 *)
(***************************************************************************)
\* C29: no trailing artifacts survive: a text that the sanitizer accepts
\* does not end with a character of the artifact set, nor with a single or
\* a double quote.
C29_NoTrailingArtifact ==
    (pc # "raw" /\ clean.ok /\ ~SanIdle) =>
        LET last == clean.text[Len(clean.text)]
        IN  last \notin Artifacts /\ last \notin {"\"", "'"}

----------------------------------------------------------------------------
(***************************************************************************)
(* The range of decoded varints.                                           *)
(***************************************************************************)
\* 0 <= x < 2^64, for an integer given by the positions of its 1 bits.
IsUnsigned64(x) == \A b \in x : b < 64

\* C30: varint value range: the value decode_varint returns is an unsigned
\* 64-bit integer (here: the tag at the offset of the scan), and so is
\* every varint field value that decode_protobuf_blob stores.
C30_VarintRange ==
    /\ (pc = "scan" /\ i < Len(blob)) => IsUnsigned64(Tag[1])
    /\ \A k \in 1..Len(log) :
           log[k].value.t = "int" => IsUnsigned64(log[k].value.bits)
============================================================================
